---- MODULE Spec2Model ----
(***************************************************************************)
(* Model of the playlist conversion worker: the Conversion aggregate       *)
(* (internal/domain/conversion.go), the bounded-parallel track matcher     *)
(* (src/unnamed/part_005, the ISRC and text-search matcher) and the        *)
(* converter that drives one job (internal/application/converter.go).      *)
(*                                                                         *)
(* One converter action is one external call (repository, status store,    *)
(* audit log, catalog) together with the local code that runs from its     *)
(* return up to the next external call.  The matcher's goroutines, the     *)
(* closer goroutine and the cancellation of the job context interleave     *)
(* freely with it.                                                         *)
(***************************************************************************)
EXTENDS Integers, Sequences, FiniteSets, TLC

VARIABLES
    job,          \* the *ConversionJob handed to Convert
    concurrency,  \* config.WorkerConfig.Concurrency
    ctxDone,      \* the job context is cancelled (deadline or shutdown)
    cancelledIn,  \* history: the Conversion's status when that happened
    clock,        \* time.Now(): one tick per reading
    pc,           \* the converter task: the external call it makes next
    conversion,   \* the *domain.Conversion aggregate (NoConversion before it exists)
    guard,        \* the deferred recover(): "none", "armed", "running"
    pending,      \* the value Convert returns once saveState is through
    ret,          \* what Convert returned to the worker
    crashed,      \* an unrecovered panic ended the process
    row,          \* the conversions table row of the job (NoRow if none)
    snapshot,     \* the keyed store's value at conversion:<id>:status
    lastWrite,    \* outcome of the latest conversionRepo.Update
    logs,         \* the conversion_logs rows, in insertion order
    playlistName, \* playlist.Name as fetched
    tracks,       \* the tracks handed to MatchTracks
    units,        \* per track: the goroutine's position
    sem,          \* number of tokens in the sem channel
    wg,           \* the WaitGroup counter
    results,      \* the buffered results channel
    closed,       \* close(results) has happened
    calls,        \* history: per unit, the catalog calls it made (SpecLadder)
    matches,      \* MatchTracks' matches slice (Convert's after it returns)
    counters,     \* MatchTracks' processed, matched, failed
    callbacks,    \* number of onProgress invocations so far
    videoIDs,     \* Convert's matchedVideoIDs
    created,      \* what CreatePlaylist returned (NoPlaylist if not created)
    added,        \* what AddVideosToPlaylist attached, and where (NotAdded if nothing)
    queue,        \* the Redis list conversion:jobs, head first (SpecWorker)
    pushed,       \* number of jobs the producer has pushed
    wk,           \* per worker process: its Run loop and contexts
    handed,       \* history: the Convert calls made, in order
    active,       \* the Convert calls that have not returned
    popErrs,      \* number of Pop calls that failed so far
    records       \* per job: the status in its conversions row ("none" without)

vars == <<job, concurrency, ctxDone, cancelledIn, clock, pc, conversion, guard, pending, ret,
          crashed, row, snapshot, lastWrite, logs, playlistName, tracks, units,
          sem, wg, results, closed, calls, matches, counters, callbacks, videoIDs,
          created, added, queue, pushed, wk, handed, active, popErrs,
          records>>

----------------------------------------------------------------------------
\* Bounds of the model.

\* Longest playlist the source catalog returns.
MaxTracks == 2

\* Largest WORKER_CONCURRENCY tried (0 is tried too).
MaxConcurrency == 2

\* Longest candidate list a text search returns.
MaxCands == 2

\* Longest call sequence on a bare aggregate (specification SpecAggregate).
MaxCalls == 4

\* Worker processes polling the queue, jobs the producer pushes, and Pop
\* calls that fail on the transport (specification SpecWorker).
MaxWorkers == 2
MaxJobs == 2
MaxPopErrors == 1

----------------------------------------------------------------------------
\* Strings the matcher inspects are sequences of characters.

Upper == <<"A", "B", "C", "D", "E", "I", "L", "O", "Q", "R", "V", "X", "Z">>
Lower == <<"a", "b", "c", "d", "e", "i", "l", "o", "q", "r", "v", "x", "z">>

\* unicode.ToLower on one character.
ToLowerChar(ch) ==
    IF \E k \in DOMAIN Upper : Upper[k] = ch
    THEN Lower[CHOOSE k \in DOMAIN Upper : Upper[k] = ch]
    ELSE ch

\* strings.ToLower
ToLower(s) == [k \in DOMAIN s |-> ToLowerChar(s[k])]

\* strings.Contains
Contains(s, sub) ==
    \E k \in 1..(Len(s) - Len(sub) + 1) : SubSeq(s, k, k + Len(sub) - 1) = sub

\* var excludeTerms
excludeTerms ==
    << <<"c", "o", "v", "e", "r">>,
       <<"l", "i", "v", "e">>,
       <<"k", "a", "r", "a", "o", "k", "e">>,
       <<"r", "e", "m", "i", "x">>,
       <<"t", "u", "t", "o", "r", "i", "a", "l">>,
       <<"r", "e", "a", "c", "t", "i", "o", "n">> >>

----------------------------------------------------------------------------
\* domain.Track values used by the model.

Track(name, artist, isrc, platformId) ==
    [name |-> name, artist |-> artist, isrc |-> isrc, platformId |-> platformId]

\* A nil *Track.
NoTrack == Track(<<>>, <<>>, "", "")

\* The k-th track of the source playlist: odd ones carry an ISRC, even ones
\* none.
SourceTrack(k) ==
    IF k % 2 = 1
    THEN Track(<<"A", "b">>, <<"Q">>, "ISRC" \o ToString(k), "sp" \o ToString(k))
    ELSE Track(<<"C", "d">>, <<"Q">>, "", "sp" \o ToString(k))

\* Target-platform tracks a catalog call can return: one that no exclusion
\* term rejects, and a live recording.
TargetTracks ==
    { Track(<<"Q", " ", "-", " ", "A", "b">>, <<"Q">>, "", "yt1"),
      Track(<<"A", "B", " ", "L", "I", "V", "E">>, <<"Q">>, "", "yt2") }

\* The catalog a single unit of work is tried against: besides the two
\* tracks above, one that matches the title only, one the artist only, one
\* that names the artist in its title only, and one that matches nothing.
LadderTargets ==
    TargetTracks \cup
    { Track(<<"A", "b">>, <<"Z">>, "", "yt3"),
      Track(<<"X", "x">>, <<"Q">>, "", "yt4"),
      Track(<<"q", " ", "X", "x">>, <<"Z">>, "", "yt5"),
      Track(<<"X", "x">>, <<"Z">>, "", "yt6") }

\* The source tracks a single unit of work is tried on: with an ISRC,
\* without, and one that shares its title with no catalog track.
LadderSources ==
    { SourceTrack(1), SourceTrack(2), Track(<<"A", "b">>, <<"Q">>, "", "sp3") }

\* All sequences over S of length at most n.
SeqsUpTo(S, n) == UNION {[1..k -> S] : k \in 0..n}

----------------------------------------------------------------------------
\* domain.TrackMatch.  src is the index of the source track in the input
\* list (the *Track pointer); 0 is the nil pointer.

MatchConfidenceHigh   == "HIGH"
MatchConfidenceMedium == "MEDIUM"
MatchConfidenceLow    == "LOW"
MatchConfidenceNone   == "NONE"

NewTrackMatch(source, target, confidence, method) ==
    [src |-> source, target |-> target, confidence |-> confidence,
     method |-> method, error |-> ""]

NewFailedMatch(source, err) ==
    [src |-> source, target |-> NoTrack, confidence |-> MatchConfidenceNone,
     method |-> "", error |-> err]

\* isExcluded(title)
isExcluded(title) ==
    \E k \in DOMAIN excludeTerms : Contains(ToLower(title), excludeTerms[k])

\* A faulty artist test that looks at the target's artist only; the
\* property C18_ScoredOnFirstKept must tell it from hasArtistMatch.
hasArtistMatchArtistOnly(source, target) ==
    Contains(ToLower(target.artist), ToLower(source.artist))

\* hasArtistMatch(source, target)
hasArtistMatch(source, target) ==
    \/ Contains(ToLower(target.artist), ToLower(source.artist))
    \/ Contains(ToLower(target.name), ToLower(source.artist))

\* hasTitleMatch(source, target)
hasTitleMatch(source, target) ==
    Contains(ToLower(target.name), ToLower(source.name))

\* The body of tryMusicSearch's loop for one candidate that is not excluded.
ScoreCandidate(i, source, target) ==
    IF hasArtistMatch(source, target) /\ hasTitleMatch(source, target)
    THEN NewTrackMatch(i, target, MatchConfidenceHigh, "exact_match")
    ELSE IF hasArtistMatch(source, target) \/ hasTitleMatch(source, target)
    THEN NewTrackMatch(i, target, MatchConfidenceMedium, "partial_match")
    ELSE NewTrackMatch(i, target, MatchConfidenceLow, "music_search")

\* A faulty choice that takes the first candidate, excluded or not; the
\* property C20_NoMatchFound must tell it from FirstKept.
FirstOfAny(cands) == IF Len(cands) > 0 THEN 1 ELSE 0

\* Index of the first candidate that is not excluded, 0 if there is none.
FirstKept(cands) ==
    IF \E k \in DOMAIN cands : ~isExcluded(cands[k].name)
    THEN CHOOSE k \in DOMAIN cands :
            /\ ~isExcluded(cands[k].name)
            /\ \A j \in 1..(k - 1) : isExcluded(cands[j].name)
    ELSE 0

\* Responses of the target catalog.  err is "" for a nil error.
Response(err, value) == [err |-> err, value |-> value]

\* A nil *TrackMatch.
NilMatch == NewFailedMatch(0, "nil")

\* A faulty ISRC rung that takes a nil track for a hit; the property
\* C17_ISRCRungFirst must tell it from tryISRCSearch.
tryISRCSearchTakesNil(i, source, resp) ==
    IF source.isrc = "" THEN NilMatch
    ELSE IF resp.err # "" THEN NilMatch
    ELSE NewTrackMatch(i, resp.value, MatchConfidenceHigh, "isrc")

\* tryISRCSearch: source.isrc is not empty and resp is what SearchByISRC
\* returned (value NoTrack for a nil track).
tryISRCSearch(i, source, resp) ==
    IF source.isrc = "" THEN NilMatch
    ELSE IF resp.err # "" THEN NilMatch
    ELSE IF resp.value = NoTrack THEN NilMatch
    ELSE NewTrackMatch(i, resp.value, MatchConfidenceHigh, "isrc")

\* tryMusicSearch: resp is what SearchTrack returned.
tryMusicSearch(i, source, resp) ==
    IF resp.err # "" THEN NilMatch
    ELSE IF Len(resp.value) = 0 THEN NilMatch
    ELSE IF FirstKept(resp.value) = 0 THEN NilMatch
    ELSE ScoreCandidate(i, source, resp.value[FirstKept(resp.value)])

\* matchTrack once the ISRC rung gave nothing: the text search, then the
\* fallback.
matchTrackText(i, source, resp) ==
    IF tryMusicSearch(i, source, resp) # NilMatch
    THEN tryMusicSearch(i, source, resp)
    ELSE NewFailedMatch(i, "no match found")

----------------------------------------------------------------------------
\* domain.Conversion

ConversionStatusPending   == "PENDING"
ConversionStatusFetching  == "FETCHING"
ConversionStatusMatching  == "MATCHING"
ConversionStatusCreating  == "CREATING"
ConversionStatusCompleted == "COMPLETED"
ConversionStatusFailed    == "FAILED"

\* ConversionStatus.IsTerminal
IsTerminal(s) == s = ConversionStatusCompleted \/ s = ConversionStatusFailed

\* Platform.IsValid
PlatformIsValid(p) == p = "SPOTIFY" \/ p = "YOUTUBE"

NilJob == [nil |-> TRUE]

Job(jobId, userId, source, target, playlistId, selected) ==
    [nil |-> FALSE, jobId |-> jobId, userId |-> userId, sourcePlatform |-> source,
     targetPlatform |-> target, sourcePlaylistId |-> playlistId,
     selectedTrackIds |-> selected, targetPlaylistName |-> "Mine"]

\* The jobs Convert is tried on: two well-formed ones (without and with a
\* selected subset) and one for each way of being malformed.
Jobs ==
    { Job("j1", "u1", "SPOTIFY", "YOUTUBE", "p1", <<>>),
      Job("j1", "u1", "SPOTIFY", "YOUTUBE", "p1", <<"sp2", "sp9">>),
      NilJob,
      Job("", "u1", "SPOTIFY", "YOUTUBE", "p1", <<>>),
      Job("j1", "", "SPOTIFY", "YOUTUBE", "p1", <<>>),
      Job("j1", "u1", "TIDAL", "YOUTUBE", "p1", <<>>),
      Job("j1", "u1", "SPOTIFY", "", "p1", <<>>),
      Job("j1", "u1", "SPOTIFY", "YOUTUBE", "", <<>>) }

\* A faulty validation that lets an empty source playlist id through; the
\* property C21_MalformedJobRejected must tell it from JobError.
JobErrorSkipsPlaylist(j) ==
    IF j.nil THEN "job cannot be nil"
    ELSE IF j.jobId = "" THEN "job ID cannot be empty"
    ELSE IF j.userId = "" THEN "user ID cannot be empty"
    ELSE IF ~PlatformIsValid(j.sourcePlatform) THEN "invalid source platform"
    ELSE IF ~PlatformIsValid(j.targetPlatform) THEN "invalid target platform"
    ELSE ""

\* The validation error of NewConversion, "" if the job is well-formed.
JobError(j) ==
    IF j.nil THEN "job cannot be nil"
    ELSE IF j.jobId = "" THEN "job ID cannot be empty"
    ELSE IF j.userId = "" THEN "user ID cannot be empty"
    ELSE IF ~PlatformIsValid(j.sourcePlatform) THEN "invalid source platform"
    ELSE IF ~PlatformIsValid(j.targetPlatform) THEN "invalid target platform"
    ELSE IF j.sourcePlaylistId = "" THEN "source playlist ID cannot be empty"
    ELSE ""

\* NewConversion for a well-formed job; completedAt 0 is the nil pointer.
NewConversion(j, now) ==
    [id |-> j.jobId, userId |-> j.userId,
     sourcePlaylistName |-> "", targetPlaylistID |-> "", targetPlaylistURL |-> "",
     targetPlaylistName |-> j.targetPlaylistName,
     status |-> ConversionStatusPending,
     totalTracks |-> 0, processedTracks |-> 0, matchedTracks |-> 0,
     failedTracks |-> 0, errorMessage |-> "",
     createdAt |-> now, updatedAt |-> now, completedAt |-> 0]

\* Convert's conversion variable before NewConversion has returned.
NoConversion ==
    [id |-> "", userId |-> "",
     sourcePlaylistName |-> "", targetPlaylistID |-> "", targetPlaylistURL |-> "",
     targetPlaylistName |-> "",
     status |-> "",
     totalTracks |-> 0, processedTracks |-> 0, matchedTracks |-> 0,
     failedTracks |-> 0, errorMessage |-> "",
     createdAt |-> 0, updatedAt |-> 0, completedAt |-> 0]

StartFetching(c, now) ==
    [c EXCEPT !.status = ConversionStatusFetching, !.updatedAt = now]

StartMatching(c, totalTracks, sourcePlaylistName, now) ==
    [c EXCEPT !.status = ConversionStatusMatching, !.totalTracks = totalTracks,
              !.sourcePlaylistName = sourcePlaylistName, !.updatedAt = now]

UpdateProgress(c, processed, matched, failed, now) ==
    [c EXCEPT !.processedTracks = processed, !.matchedTracks = matched,
              !.failedTracks = failed, !.updatedAt = now]

StartCreating(c, now) ==
    [c EXCEPT !.status = ConversionStatusCreating, !.updatedAt = now]

\* A faulty Complete that forgets the target playlist's url; the property
\* C22_EndToEndAsWritten must tell it from Complete.
CompleteWithoutURL(c, targetPlaylistID, targetPlaylistURL, now) ==
    [c EXCEPT !.status = ConversionStatusCompleted,
              !.targetPlaylistID = targetPlaylistID,
              !.updatedAt = now, !.completedAt = now]

Complete(c, targetPlaylistID, targetPlaylistURL, now) ==
    [c EXCEPT !.status = ConversionStatusCompleted,
              !.targetPlaylistID = targetPlaylistID,
              !.targetPlaylistURL = targetPlaylistURL,
              !.updatedAt = now, !.completedAt = now]

Fail(c, errorMessage, now) ==
    [c EXCEPT !.status = ConversionStatusFailed, !.errorMessage = errorMessage,
              !.updatedAt = now, !.completedAt = now]

\* A faulty Progress that forgets to divide by the total; the snapshot
\* property C14_SnapshotWellFormed must tell it from Progress.
ProgressUnscaled(c) ==
    IF c.totalTracks = 0 THEN 0
    ELSE c.processedTracks * 100

\* Conversion.Progress
Progress(c) ==
    IF c.totalTracks = 0 THEN 0
    ELSE (c.processedTracks * 100) \div c.totalTracks

----------------------------------------------------------------------------
\* The two stores.

\* A faulty nullableString that stores the empty string as a value; the
\* property C36_OptionalRoundTrip must tell it from nullableString.
nullableStringKeepsEmpty(s) == <<s>>

\* nullableString / derefString: a *string is a sequence of length 0 or 1.
nullableString(s) == IF s = "" THEN <<>> ELSE <<s>>
derefString(p) == IF p = <<>> THEN "" ELSE p[1]

\* The conversions table holds no row for the job.
NoRow ==
    [id |-> "", user_id |-> "", source_playlist_name |-> <<>>,
     target_playlist_id |-> <<>>, target_playlist_url |-> <<>>,
     target_playlist_name |-> <<>>, status |-> "",
     total_tracks |-> 0, processed_tracks |-> 0, matched_tracks |-> 0,
     failed_tracks |-> 0, error_message |-> <<>>,
     created_at |-> 0, updated_at |-> 0, completed_at |-> 0]

\* The row conversionRepository.Create inserts.
InsertedRow(c) ==
    [id |-> c.id, user_id |-> c.userId,
     source_playlist_name |-> nullableString(c.sourcePlaylistName),
     target_playlist_id |-> nullableString(c.targetPlaylistID),
     target_playlist_url |-> nullableString(c.targetPlaylistURL),
     target_playlist_name |-> nullableString(c.targetPlaylistName),
     status |-> c.status,
     total_tracks |-> c.totalTracks, processed_tracks |-> c.processedTracks,
     matched_tracks |-> c.matchedTracks, failed_tracks |-> c.failedTracks,
     error_message |-> nullableString(c.errorMessage),
     created_at |-> c.createdAt, updated_at |-> c.updatedAt,
     completed_at |-> c.completedAt]

\* A faulty Update whose statement leaves the status column out; the
\* durable-record property C4_TerminalWritesOnly must tell it from UpdatedRow.
UpdatedRowKeepsStatus(r, c) ==
    IF r = NoRow \/ r.id # c.id THEN r
    ELSE [r EXCEPT
            !.source_playlist_name = nullableString(c.sourcePlaylistName),
            !.target_playlist_id = nullableString(c.targetPlaylistID),
            !.target_playlist_url = nullableString(c.targetPlaylistURL),
            !.target_playlist_name = nullableString(c.targetPlaylistName),
            !.total_tracks = c.totalTracks,
            !.processed_tracks = c.processedTracks,
            !.matched_tracks = c.matchedTracks,
            !.failed_tracks = c.failedTracks,
            !.error_message = nullableString(c.errorMessage),
            !.updated_at = c.updatedAt,
            !.completed_at = c.completedAt]

\* The row after conversionRepository.Update: UPDATE ... WHERE id = $1 changes
\* the row with that id and nothing when there is none.
UpdatedRow(r, c) ==
    IF r = NoRow \/ r.id # c.id THEN r
    ELSE [r EXCEPT
            !.source_playlist_name = nullableString(c.sourcePlaylistName),
            !.target_playlist_id = nullableString(c.targetPlaylistID),
            !.target_playlist_url = nullableString(c.targetPlaylistURL),
            !.target_playlist_name = nullableString(c.targetPlaylistName),
            !.status = c.status,
            !.total_tracks = c.totalTracks,
            !.processed_tracks = c.processedTracks,
            !.matched_tracks = c.matchedTracks,
            !.failed_tracks = c.failedTracks,
            !.error_message = nullableString(c.errorMessage),
            !.updated_at = c.updatedAt,
            !.completed_at = c.completedAt]

\* scanConversion: the Conversion that FindByID builds from a row; the
\* nullable columns are scanned into pointers and read with derefString.
scanConversion(r) ==
    [id |-> r.id, userId |-> r.user_id,
     sourcePlaylistName |-> derefString(r.source_playlist_name),
     targetPlaylistID |-> derefString(r.target_playlist_id),
     targetPlaylistURL |-> derefString(r.target_playlist_url),
     targetPlaylistName |-> derefString(r.target_playlist_name),
     status |-> r.status,
     totalTracks |-> r.total_tracks, processedTracks |-> r.processed_tracks,
     matchedTracks |-> r.matched_tracks, failedTracks |-> r.failed_tracks,
     errorMessage |-> derefString(r.error_message),
     createdAt |-> r.created_at, updatedAt |-> r.updated_at,
     completedAt |-> r.completed_at]

\* The keyed store holds nothing under the job's key.
NoSnapshot ==
    [jobId |-> "", status |-> "", progress |-> 0, totalTracks |-> 0,
     processedTracks |-> 0, matchedTracks |-> 0, failedTracks |-> 0,
     targetPlaylistUrl |-> "", error |-> "", updatedAt |-> 0]

\* redis.NewStatusFromConversion, stamped by statusStore.Set at time now.
NewStatusFromConversion(c, now) ==
    [jobId |-> c.id, status |-> c.status, progress |-> Progress(c),
     totalTracks |-> c.totalTracks, processedTracks |-> c.processedTracks,
     matchedTracks |-> c.matchedTracks, failedTracks |-> c.failedTracks,
     targetPlaylistUrl |-> c.targetPlaylistURL, error |-> c.errorMessage,
     updatedAt |-> now]

----------------------------------------------------------------------------
\* domain.ConversionLog rows (the columns the model keeps).

LogRow(step, status, sourceTrackID, targetTrackID, errorMessage) ==
    [step |-> step, status |-> status, sourceTrackID |-> sourceTrackID,
     targetTrackID |-> targetTrackID, errorMessage |-> errorMessage]

NewFetchPlaylistLog(status, errorMessage) ==
    LogRow("FETCH_SOURCE_PLAYLIST", status, "", "", errorMessage)

NewCreatePlaylistLog(status, errorMessage) ==
    LogRow("CREATE_TARGET_PLAYLIST", status, "", "", errorMessage)

\* NewMatchTrackLog / NewMatchTrackErrorLog for the Match m of track list ts.
NewMatchTrackLog(ts, m) ==
    LogRow("MATCH_TRACK", "SUCCESS",
           IF m.src # 0 THEN ts[m.src].platformId ELSE "",
           m.target.platformId, "")

NewMatchTrackErrorLog(ts, m) ==
    LogRow("MATCH_TRACK", "FAILED",
           IF m.src # 0 THEN ts[m.src].platformId ELSE "", "", m.error)

\* A faulty loop that writes a SUCCESS row for every Match; the property
\* C31_AuditBatch must tell it from MatchLogs.
MatchLogsAllSuccess(ts, ms) == [k \in DOMAIN ms |-> NewMatchTrackLog(ts, ms[k])]

\* Convert's loop over matches: the audit batch ...
MatchLogs(ts, ms) ==
    [k \in DOMAIN ms |->
        IF ms[k].confidence # MatchConfidenceNone
        THEN NewMatchTrackLog(ts, ms[k])
        ELSE NewMatchTrackErrorLog(ts, ms[k])]

\* A faulty collection that takes the target id of every Match, failed ones
\* included; the property C15_NoTracksMatched must tell it from
\* MatchedVideoIDs.
MatchedVideoIDsOfAll(ms) == [k \in DOMAIN ms |-> ms[k].target.platformId]

\* A faulty collection that prepends where Convert appends; the property
\* C30_AttachedOnce must tell it from MatchedVideoIDs.
MatchedVideoIDsLastFirst(ms) ==
    LET hit(m) == m.confidence # MatchConfidenceNone
        hits == SelectSeq(ms, hit)
    IN  [k \in DOMAIN hits |-> hits[Len(hits) + 1 - k].target.platformId]

\* ... and matchedVideoIDs.
MatchedVideoIDs(ms) ==
    LET hit(m) == m.confidence # MatchConfidenceNone
        hits == SelectSeq(ms, hit)
    IN  [k \in DOMAIN hits |-> hits[k].target.platformId]

\* A faulty filter that keeps the tracks that were not selected; the
\* property C33_SelectedSubset must tell it from filterTracks.
filterTracksInverted(ts, selectedIDs) ==
    LET keep(t) == \A k \in DOMAIN selectedIDs : selectedIDs[k] # t.platformId
    IN  SelectSeq(ts, keep)

\* filterTracks
filterTracks(ts, selectedIDs) ==
    LET idSet == {selectedIDs[k] : k \in DOMAIN selectedIDs}
        keep(t) == t.platformId \in idSet
    IN  SelectSeq(ts, keep)

\* handleError's fullMessage; err is "" for a nil error.
FullMessage(message, err) ==
    IF err = "" THEN message ELSE message \o ": " \o err

----------------------------------------------------------------------------
\* Outcomes of external calls.

\* ctx.Err() of a cancelled context, and an error of the transport.
ErrCancelled == "context canceled"
ErrTransport == "connection refused"

\* The value a panic carries.
PanicValue == "boom"

\* A call on a store (conversionRepo, statusStore, logRepo) returns nil or an
\* error, or panics.
StoreOutcomes == {"ok", "error", "panic"}

\* The error a failing call returns: the context's error when the context is
\* cancelled (the request is then not made), an error of the transport
\* otherwise.
CallError == IF ctxDone THEN ErrCancelled ELSE ErrTransport

\* Outcomes of a catalog call: success only while the context is live.
CatalogOutcomes == IF ctxDone THEN {"error", "panic"} ELSE {"ok", "error", "panic"}

\* The target catalog: the two tracks above while a whole job is followed,
\* the larger catalog of SpecLadder while a single unit of work is.
CatalogTracks == IF pc = "ladder" THEN LadderTargets ELSE TargetTracks

\* What SearchByISRC can return (a nil track is NoTrack).
ISRCResponses ==
    IF ctxDone THEN {Response(ErrCancelled, NoTrack)}
    ELSE {Response(ErrTransport, NoTrack)}
         \cup {Response("", t) : t \in CatalogTracks \cup {NoTrack}}

\* What SearchTrack can return.
TextResponses ==
    IF ctxDone THEN {Response(ErrCancelled, <<>>)}
    ELSE {Response(ErrTransport, <<>>)}
         \cup {Response("", c) : c \in SeqsUpTo(CatalogTracks, MaxCands)}

\* What GetPlaylistTracks can return on success: the first k tracks of the
\* source playlist.
Playlists == {[i \in 1..k |-> SourceTrack(i)] : k \in 0..MaxTracks}

NoPlaylist == [id |-> "", url |-> ""]
NotAdded == [playlistID |-> "", videoIDs |-> <<>>]

\* Convert's return value: error(msg), nil, or none yet.
Running == [kind |-> "running", msg |-> ""]
ReturnNil == [kind |-> "nil", msg |-> ""]
ReturnError(msg) == [kind |-> "error", msg |-> msg]

----------------------------------------------------------------------------
\* No worker loop is followed: one Convert call is, or less.
NoWorker ==
    /\ queue = <<>>
    /\ pushed = 0
    /\ wk = <<>>
    /\ handed = <<>>
    /\ active = {}
    /\ popErrs = 0
    /\ records = <<>>

\* Initial state: Convert is about to be called.

Init ==
    /\ job \in Jobs
    /\ concurrency \in 0..MaxConcurrency
    /\ NoWorker
    /\ ctxDone = FALSE
    /\ cancelledIn = "-"
    /\ clock = 0
    /\ pc = "Convert"
    /\ conversion = NoConversion
    /\ guard = "none"
    /\ pending = Running
    /\ ret = Running
    /\ crashed = FALSE
    /\ row = NoRow
    /\ snapshot = NoSnapshot
    /\ lastWrite = "none"
    /\ logs = <<>>
    /\ playlistName = ""
    /\ tracks = <<>>
    /\ units = <<>>
    /\ sem = 0
    /\ wg = 0
    /\ results = <<>>
    /\ closed = FALSE
    /\ calls = <<>>
    /\ matches = <<>>
    /\ counters = [processed |-> 0, matched |-> 0, failed |-> 0]
    /\ callbacks = 0
    /\ videoIDs = <<>>
    /\ created = NoPlaylist
    /\ added = NotAdded

workerVars == <<queue, pushed, wk, handed, active, popErrs, records>>
jobVars == <<job, concurrency, workerVars>>
ctxVars == <<ctxDone, cancelledIn>>
matcherVars == <<units, sem, wg, results, closed, calls>>
aggVars == <<matches, counters, callbacks>>
catalogVars == <<created, added>>
storeVars == <<row, snapshot, lastWrite, logs>>

----------------------------------------------------------------------------
\* Pieces shared by the converter's actions.

\* statusStore.Set(NewStatusFromConversion(conversion)) inside updateStatus:
\* the error is logged and dropped.
StatusStoreSet(outcome) ==
    snapshot' = IF outcome = "ok"
                THEN NewStatusFromConversion(conversion, clock + 1)
                ELSE snapshot

\* A panic in the converter task.  With the deferred function of Convert
\* installed it recovers: Fail("internal error: ..."), then saveState, and
\* Convert returns its zero result.  Otherwise (before the defer statement,
\* or a second panic inside the deferred function) the panic leaves Convert
\* and ends the process.
Recover ==
    IF guard = "armed"
    THEN /\ conversion' = Fail(conversion, "internal error: " \o PanicValue, clock + 1)
         /\ clock' = clock + 1
         /\ guard' = "running"
         /\ pending' = ReturnNil
         /\ pc' = "SaveSet"
         /\ UNCHANGED crashed
    ELSE /\ crashed' = TRUE
         /\ pc' = "crashed"
         /\ UNCHANGED <<conversion, clock, guard, pending>>

\* handleError(message, err) up to its saveState; called at time now.
handleError(message, err, now) ==
    /\ conversion' = Fail(conversion, FullMessage(message, err), now)
    /\ pending' = ReturnError(FullMessage(message, err))
    /\ pc' = "SaveSet"

----------------------------------------------------------------------------
\* The converter task (converter.Convert).

\* L50-53: NewConversion(job).
Convert ==
    /\ pc = "Convert" /\ ~crashed
    /\ IF JobError(job) # ""
       THEN /\ ret' = ReturnError("failed to create conversion: " \o JobError(job))
            /\ pc' = "returned"
            /\ UNCHANGED <<conversion, clock>>
       ELSE /\ conversion' = NewConversion(job, clock + 1)
            /\ clock' = clock + 1
            /\ pc' = "Create"
            /\ UNCHANGED ret
    /\ UNCHANGED <<jobVars, ctxVars, guard, pending, crashed, storeVars, playlistName,
                   tracks, matcherVars, aggVars, videoIDs, catalogVars>>

\* L55-67: conversionRepo.Create, the defer statement, StartFetching.
RepoCreate ==
    /\ pc = "Create" /\ ~crashed
    /\ \E outcome \in StoreOutcomes :
        \/ /\ outcome = "ok"
           /\ row' = InsertedRow(conversion)
           /\ guard' = "armed"
           /\ conversion' = StartFetching(conversion, clock + 1)
           /\ clock' = clock + 1
           /\ pc' = "SetFetching"
           /\ UNCHANGED <<ret, pending, crashed>>
        \/ /\ outcome = "error"
           /\ ret' = ReturnError("failed to persist conversion: "
                                 \o "failed to create conversion: " \o CallError)
           /\ pc' = "returned"
           /\ UNCHANGED <<row, guard, conversion, clock, pending, crashed>>
        \/ /\ outcome = "panic"
           /\ Recover
           /\ UNCHANGED <<row, ret>>
    /\ UNCHANGED <<jobVars, ctxVars, snapshot, lastWrite, logs, playlistName, tracks,
                   matcherVars, aggVars, videoIDs, catalogVars>>

\* L68: updateStatus after StartFetching.
UpdateStatusFetching ==
    /\ pc = "SetFetching" /\ ~crashed
    /\ \E outcome \in StoreOutcomes :
        \/ /\ outcome # "panic"
           /\ StatusStoreSet(outcome)
           /\ clock' = clock + 1
           /\ pc' = "GetPlaylistTracks"
           /\ UNCHANGED <<conversion, guard, pending, crashed>>
        \/ /\ outcome = "panic"
           /\ Recover
           /\ UNCHANGED snapshot
    /\ UNCHANGED <<jobVars, ctxVars, ret, row, lastWrite, logs, playlistName, tracks,
                   matcherVars, aggVars, videoIDs, catalogVars>>

\* L70-73: spotifyClient.GetPlaylistTracks.
GetPlaylistTracks ==
    /\ pc = "GetPlaylistTracks" /\ ~crashed
    /\ \E outcome \in CatalogOutcomes :
        \/ /\ outcome = "ok"
           /\ \E pl \in Playlists : tracks' = pl
           /\ playlistName' = "Playlist"
           /\ pc' = "LogFetch"
           /\ UNCHANGED <<conversion, clock, guard, pending, crashed>>
        \/ /\ outcome = "error"
           /\ handleError("failed to fetch playlist", CallError, clock + 1)
           /\ clock' = clock + 1
           /\ UNCHANGED <<tracks, playlistName, guard, crashed>>
        \/ /\ outcome = "panic"
           /\ Recover
           /\ UNCHANGED <<tracks, playlistName>>
    /\ UNCHANGED <<jobVars, ctxVars, ret, storeVars, matcherVars, aggVars, videoIDs,
                   catalogVars>>

\* L75-82: the FETCH_SOURCE_PLAYLIST audit row, the subset filter,
\* StartMatching.
LogFetch ==
    /\ pc = "LogFetch" /\ ~crashed
    /\ \E outcome \in StoreOutcomes :
        \/ /\ outcome # "panic"
           /\ logs' = IF outcome = "ok"
                      THEN Append(logs, NewFetchPlaylistLog("SUCCESS", ""))
                      ELSE logs
           /\ tracks' = IF Len(job.selectedTrackIds) > 0
                        THEN filterTracks(tracks, job.selectedTrackIds)
                        ELSE tracks
           /\ conversion' = StartMatching(conversion, Len(tracks'), playlistName,
                                          clock + 1)
           /\ clock' = clock + 1
           /\ pc' = "SetMatching"
           /\ UNCHANGED <<guard, pending, crashed>>
        \/ /\ outcome = "panic"
           /\ Recover
           /\ UNCHANGED <<logs, tracks>>
    /\ UNCHANGED <<jobVars, ctxVars, ret, row, snapshot, lastWrite, playlistName,
                   matcherVars, aggVars, videoIDs, catalogVars>>

\* L83-85 and MatchTracks up to its receive loop: updateStatus, then for an
\* empty list MatchTracks returns nil at once, otherwise it makes the
\* channels and starts one goroutine per track and the closer.
UpdateStatusMatching ==
    /\ pc = "SetMatching" /\ ~crashed
    /\ \E outcome \in StoreOutcomes :
        \/ /\ outcome # "panic"
           /\ StatusStoreSet(outcome)
           /\ clock' = clock + 1
           /\ IF Len(tracks) = 0
              THEN /\ pc' = "CreateBatch"
                   /\ UNCHANGED <<units, wg>>
              ELSE /\ pc' = "Receive"
                   /\ units' = [i \in 1..Len(tracks) |-> "acquire"]
                   /\ wg' = Len(tracks)
           /\ UNCHANGED <<conversion, guard, pending, crashed>>
        \/ /\ outcome = "panic"
           /\ Recover
           /\ UNCHANGED <<snapshot, units, wg>>
    /\ UNCHANGED <<jobVars, ctxVars, ret, row, lastWrite, logs, playlistName, tracks, sem,
                   results, closed, calls, aggVars, videoIDs, catalogVars>>

\* A faulty aggregation loop that takes the next Match while the callback
\* for the one before is still publishing; the property
\* C29_SingleAggregator must tell it from AggregatorReceive.
AggregatorReceiveOverlaps ==
    /\ pc \in {"Receive", "SetProgress"} /\ ~crashed
    /\ results # <<>>
    /\ LET m == Head(results)
           hit == m.confidence # MatchConfidenceNone
           c == [processed |-> counters.processed + 1,
                 matched |-> counters.matched + (IF hit THEN 1 ELSE 0),
                 failed |-> counters.failed + (IF hit THEN 0 ELSE 1)]
       IN  /\ results' = Tail(results)
           /\ matches' = Append(matches, m)
           /\ counters' = c
           /\ callbacks' = callbacks + 1
           /\ conversion' = UpdateProgress(conversion, c.processed, c.matched,
                                           c.failed, clock + 1)
    /\ clock' = clock + 1
    /\ pc' = "SetProgress"
    /\ UNCHANGED <<jobVars, ctxVars, guard, pending, ret, crashed, storeVars,
                   playlistName, tracks, units, sem, wg, closed, calls, videoIDs,
                   catalogVars>>

\* A faulty aggregation loop that counts every Match as matched; the
\* property C12_ProgressCallbacks must tell it from AggregatorReceive.
AggregatorReceiveMiscounts ==
    /\ pc = "Receive" /\ ~crashed
    /\ results # <<>>
    /\ LET m == Head(results)
           c == [processed |-> counters.processed + 1,
                 matched |-> counters.matched + 1,
                 failed |-> counters.failed]
       IN  /\ results' = Tail(results)
           /\ matches' = Append(matches, m)
           /\ counters' = c
           /\ callbacks' = callbacks + 1
           /\ conversion' = UpdateProgress(conversion, c.processed, c.matched,
                                           c.failed, clock + 1)
    /\ clock' = clock + 1
    /\ pc' = "SetProgress"
    /\ UNCHANGED <<jobVars, ctxVars, guard, pending, ret, crashed, storeVars,
                   playlistName, tracks, units, sem, wg, closed, calls, videoIDs,
                   catalogVars>>

\* MatchTracks L65-77 and Convert's callback L86: one Match is received,
\* counted and reported; UpdateProgress.
AggregatorReceive ==
    /\ pc = "Receive" /\ ~crashed
    /\ results # <<>>
    /\ LET m == Head(results)
           hit == m.confidence # MatchConfidenceNone
           c == [processed |-> counters.processed + 1,
                 matched |-> counters.matched + (IF hit THEN 1 ELSE 0),
                 failed |-> counters.failed + (IF hit THEN 0 ELSE 1)]
       IN  /\ results' = Tail(results)
           /\ matches' = Append(matches, m)
           /\ counters' = c
           /\ callbacks' = callbacks + 1
           /\ conversion' = UpdateProgress(conversion, c.processed, c.matched,
                                           c.failed, clock + 1)
    /\ clock' = clock + 1
    /\ pc' = "SetProgress"
    /\ UNCHANGED <<jobVars, ctxVars, guard, pending, ret, crashed, storeVars,
                   playlistName, tracks, units, sem, wg, closed, calls, videoIDs,
                   catalogVars>>

\* L87: updateStatus inside the callback.
UpdateStatusProgress ==
    /\ pc = "SetProgress" /\ ~crashed
    /\ \E outcome \in StoreOutcomes :
        \/ /\ outcome # "panic"
           /\ StatusStoreSet(outcome)
           /\ clock' = clock + 1
           /\ pc' = "Receive"
           /\ UNCHANGED <<conversion, guard, pending, crashed>>
        \/ /\ outcome = "panic"
           /\ Recover
           /\ UNCHANGED snapshot
    /\ UNCHANGED <<jobVars, ctxVars, ret, row, lastWrite, logs, playlistName, tracks,
                   matcherVars, aggVars, videoIDs, catalogVars>>

\* MatchTracks L65/L80 and Convert L90-100: the results channel is closed and
\* drained, MatchTracks returns, Convert collects matchedVideoIDs.
AggregatorReturn ==
    /\ pc = "Receive" /\ ~crashed
    /\ results = <<>> /\ closed
    /\ videoIDs' = MatchedVideoIDs(matches)
    /\ pc' = "CreateBatch"
    /\ UNCHANGED <<jobVars, ctxVars, clock, conversion, guard, pending, ret, crashed,
                   storeVars, playlistName, tracks, matcherVars, aggVars, catalogVars>>

\* A faulty step that fails the job when the batch cannot be written; the
\* property C32_AuxiliaryWrites must tell it from CreateBatch.
CreateBatchFailsJob ==
    /\ pc = "CreateBatch" /\ ~crashed
    /\ \E outcome \in (IF Len(matches) = 0 THEN {"ok"} ELSE StoreOutcomes) :
        \/ /\ outcome # "panic"
           /\ logs' = IF outcome = "ok" THEN logs \o MatchLogs(tracks, matches)
                      ELSE logs
           /\ IF outcome = "error"
              THEN handleError("failed to save match logs", CallError, clock + 1)
              ELSE IF Len(videoIDs) = 0
              THEN handleError("no tracks matched", "", clock + 1)
              ELSE /\ conversion' = StartCreating(conversion, clock + 1)
                   /\ pc' = "SetCreating"
                   /\ UNCHANGED pending
           /\ clock' = clock + 1
           /\ UNCHANGED <<guard, crashed>>
        \/ /\ outcome = "panic"
           /\ Recover
           /\ UNCHANGED logs
    /\ UNCHANGED <<jobVars, ctxVars, ret, row, snapshot, lastWrite, playlistName,
                   tracks, matcherVars, aggVars, videoIDs, catalogVars>>

\* L102-110: logRepo.CreateBatch (which makes no call for an empty batch),
\* then "no tracks matched" or StartCreating.
CreateBatch ==
    /\ pc = "CreateBatch" /\ ~crashed
    /\ \E outcome \in (IF Len(matches) = 0 THEN {"ok"} ELSE StoreOutcomes) :
        \/ /\ outcome # "panic"
           /\ logs' = IF outcome = "ok" THEN logs \o MatchLogs(tracks, matches)
                      ELSE logs
           /\ IF Len(videoIDs) = 0
              THEN handleError("no tracks matched", "", clock + 1)
              ELSE /\ conversion' = StartCreating(conversion, clock + 1)
                   /\ pc' = "SetCreating"
                   /\ UNCHANGED pending
           /\ clock' = clock + 1
           /\ UNCHANGED <<guard, crashed>>
        \/ /\ outcome = "panic"
           /\ Recover
           /\ UNCHANGED logs
    /\ UNCHANGED <<jobVars, ctxVars, ret, row, snapshot, lastWrite, playlistName,
                   tracks, matcherVars, aggVars, videoIDs, catalogVars>>

\* L111: updateStatus after StartCreating.
UpdateStatusCreating ==
    /\ pc = "SetCreating" /\ ~crashed
    /\ \E outcome \in StoreOutcomes :
        \/ /\ outcome # "panic"
           /\ StatusStoreSet(outcome)
           /\ clock' = clock + 1
           /\ pc' = "CreatePlaylist"
           /\ UNCHANGED <<conversion, guard, pending, crashed>>
        \/ /\ outcome = "panic"
           /\ Recover
           /\ UNCHANGED snapshot
    /\ UNCHANGED <<jobVars, ctxVars, ret, row, lastWrite, logs, playlistName, tracks,
                   matcherVars, aggVars, videoIDs, catalogVars>>

\* L113-115: youtubeClient.CreatePlaylist.  On an error, pending holds err
\* until handleError is reached.
CreatePlaylist ==
    /\ pc = "CreatePlaylist" /\ ~crashed
    /\ \E outcome \in CatalogOutcomes :
        \/ /\ outcome = "ok"
           /\ created' = [id |-> "PL1", url |-> "https://youtube/PL1"]
           /\ pc' = "LogCreateSuccess"
           /\ UNCHANGED <<conversion, clock, guard, pending, crashed>>
        \/ /\ outcome = "error"
           /\ pending' = ReturnError(CallError)
           /\ pc' = "LogCreateFailed"
           /\ UNCHANGED <<created, conversion, clock, guard, crashed>>
        \/ /\ outcome = "panic"
           /\ Recover
           /\ UNCHANGED created
    /\ UNCHANGED <<jobVars, ctxVars, ret, storeVars, playlistName, tracks,
                   matcherVars, aggVars, videoIDs, added>>

\* L116-117: the CREATE_TARGET_PLAYLIST FAILED audit row, then handleError.
LogCreateFailed ==
    /\ pc = "LogCreateFailed" /\ ~crashed
    /\ \E outcome \in StoreOutcomes :
        \/ /\ outcome # "panic"
           /\ logs' = IF outcome = "ok"
                      THEN Append(logs, NewCreatePlaylistLog("FAILED", pending.msg))
                      ELSE logs
           /\ handleError("failed to create playlist", pending.msg, clock + 1)
           /\ clock' = clock + 1
           /\ UNCHANGED <<guard, crashed>>
        \/ /\ outcome = "panic"
           /\ Recover
           /\ UNCHANGED logs
    /\ UNCHANGED <<jobVars, ctxVars, ret, row, snapshot, lastWrite, playlistName,
                   tracks, matcherVars, aggVars, videoIDs, catalogVars>>

\* L120: the CREATE_TARGET_PLAYLIST SUCCESS audit row.
LogCreateSuccess ==
    /\ pc = "LogCreateSuccess" /\ ~crashed
    /\ \E outcome \in StoreOutcomes :
        \/ /\ outcome # "panic"
           /\ logs' = IF outcome = "ok"
                      THEN Append(logs, NewCreatePlaylistLog("SUCCESS", ""))
                      ELSE logs
           /\ pc' = "AddVideos"
           /\ UNCHANGED <<conversion, clock, guard, pending, crashed>>
        \/ /\ outcome = "panic"
           /\ Recover
           /\ UNCHANGED logs
    /\ UNCHANGED <<jobVars, ctxVars, ret, row, snapshot, lastWrite, playlistName,
                   tracks, matcherVars, aggVars, videoIDs, catalogVars>>

\* L122-126: youtubeClient.AddVideosToPlaylist, then Complete.
AddVideosToPlaylist ==
    /\ pc = "AddVideos" /\ ~crashed
    /\ \E outcome \in CatalogOutcomes :
        \/ /\ outcome = "ok"
           /\ added' = [playlistID |-> created.id, videoIDs |-> videoIDs]
           /\ conversion' = Complete(conversion, created.id, created.url, clock + 1)
           /\ clock' = clock + 1
           /\ pending' = ReturnNil
           /\ pc' = "SaveSet"
           /\ UNCHANGED <<guard, crashed>>
        \/ /\ outcome = "error"
           /\ handleError("failed to add videos to playlist", CallError, clock + 1)
           /\ clock' = clock + 1
           /\ UNCHANGED <<added, guard, crashed>>
        \/ /\ outcome = "panic"
           /\ Recover
           /\ UNCHANGED added
    /\ UNCHANGED <<jobVars, ctxVars, ret, storeVars, playlistName, tracks,
                   matcherVars, aggVars, videoIDs, created>>

\* saveState L156: updateStatus.
SaveStateSet ==
    /\ pc = "SaveSet" /\ ~crashed
    /\ \E outcome \in StoreOutcomes :
        \/ /\ outcome # "panic"
           /\ StatusStoreSet(outcome)
           /\ clock' = clock + 1
           /\ pc' = "SaveUpdate"
           /\ UNCHANGED <<conversion, guard, pending, crashed>>
        \/ /\ outcome = "panic"
           /\ Recover
           /\ UNCHANGED snapshot
    /\ UNCHANGED <<jobVars, ctxVars, ret, row, lastWrite, logs, playlistName, tracks,
                   matcherVars, aggVars, videoIDs, catalogVars>>

\* saveState L157-159: conversionRepo.Update (its error is logged and
\* dropped), then Convert returns: L132, L145, or the end of the deferred
\* function.
SaveStateUpdate ==
    /\ pc = "SaveUpdate" /\ ~crashed
    /\ \E outcome \in StoreOutcomes :
        \/ /\ outcome # "panic"
           /\ row' = IF outcome = "ok" THEN UpdatedRow(row, conversion) ELSE row
           /\ lastWrite' = outcome
           /\ ret' = pending
           /\ pc' = "returned"
           /\ UNCHANGED <<conversion, clock, guard, pending, crashed>>
        \/ /\ outcome = "panic"
           /\ Recover
           /\ UNCHANGED <<row, lastWrite, ret>>
    /\ UNCHANGED <<jobVars, ctxVars, snapshot, logs, playlistName, tracks,
                   matcherVars, aggVars, videoIDs, catalogVars>>

----------------------------------------------------------------------------
\* The matcher's goroutines (matcher.MatchTracks L39-60).

convVars == <<jobVars, ctxVars, clock, pc, conversion, guard, pending, ret, storeVars,
              playlistName, tracks, aggVars, videoIDs, catalogVars>>

\* A goroutine's steps are cut at its catalog calls; the channel operations
\* before and after a call belong to the step of that call.  While Convert
\* is running the goroutines run; the model follows them no further than
\* Convert's return.
Live == ~crashed /\ pc # "returned"

\* The history of catalog calls is kept where a single unit of work is
\* examined (specification SpecLadder): unit i called op and got resp.
Record(i, op, resp) ==
    calls' = IF pc = "ladder"
             THEN [calls EXCEPT ![i] = Append(@, [op |-> op, resp |-> resp])]
             ELSE calls

\* A faulty exit that never gives its slot back; the termination property
\* C13_MatchTracksTerminates must tell it from UnitExit.
UnitExitKeepsSlot(i, m) ==
    /\ results' = Append(results, m)
    /\ wg' = wg - 1
    /\ units' = [units EXCEPT ![i] = "done"]
    /\ UNCHANGED sem

\* The deferred calls L43 and L40 after the send on results: <-sem,
\* wg.Done().
UnitExit(i, m) ==
    /\ results' = Append(results, m)
    /\ sem' = sem - 1
    /\ wg' = wg - 1
    /\ units' = [units EXCEPT ![i] = "done"]

\* A faulty unit that does not look at the context before its work; the
\* property C28_CancelledAtEntry must tell it from UnitStart.
UnitStartIgnoresCancel(i) ==
    /\ Live
    /\ units[i] = "acquire"
    /\ sem < concurrency
    /\ sem' = sem + 1
    /\ units' = [units EXCEPT ![i] =
                    IF tracks[i].isrc = "" THEN "text" ELSE "isrc"]
    /\ UNCHANGED <<results, wg>>
    /\ UNCHANGED <<convVars, crashed, closed, calls>>

\* A unit that waits for a slot and for the cancellation at once, and
\* leaves with its failed Match when the context is done; the property
\* C38_ZeroConcurrencyBlocks must tell it from UnitStart.
UnitStartSelectsOnCancel(i) ==
    /\ Live
    /\ units[i] = "acquire"
    /\ sem < concurrency \/ ctxDone
    /\ IF ctxDone
       THEN /\ results' = Append(results, NewFailedMatch(i, "context cancelled"))
            /\ wg' = wg - 1
            /\ units' = [units EXCEPT ![i] = "done"]
            /\ UNCHANGED sem
       ELSE /\ sem' = sem + 1
            /\ units' = [units EXCEPT ![i] =
                            IF tracks[i].isrc = "" THEN "text" ELSE "isrc"]
            /\ UNCHANGED <<results, wg>>
    /\ UNCHANGED <<convVars, crashed, closed, calls>>

\* A faulty unit that does not wait for a slot of the semaphore; the
\* property C11_SlotsBounded must tell it from UnitStart.
UnitStartUnbounded(i) ==
    /\ Live
    /\ units[i] = "acquire"
    /\ IF ctxDone
       THEN /\ results' = Append(results, NewFailedMatch(i, "context cancelled"))
            /\ wg' = wg - 1
            /\ units' = [units EXCEPT ![i] = "done"]
            /\ UNCHANGED sem
       ELSE /\ sem' = sem + 1
            /\ units' = [units EXCEPT ![i] =
                            IF tracks[i].isrc = "" THEN "text" ELSE "isrc"]
            /\ UNCHANGED <<results, wg>>
    /\ UNCHANGED <<convVars, crashed, closed, calls>>

\* A faulty unit that returns on cancellation without sending its failed
\* Match; the property C1_OneMatchPerTrack must tell it from UnitStart.
UnitStartDropsCancelled(i) ==
    /\ Live
    /\ units[i] = "acquire"
    /\ sem < concurrency
    /\ IF ctxDone
       THEN /\ wg' = wg - 1
            /\ units' = [units EXCEPT ![i] = "done"]
            /\ UNCHANGED <<sem, results>>
       ELSE /\ sem' = sem + 1
            /\ units' = [units EXCEPT ![i] =
                            IF tracks[i].isrc = "" THEN "text" ELSE "isrc"]
            /\ UNCHANGED <<results, wg>>
    /\ UNCHANGED <<convVars, crashed, closed, calls>>

\* L42-50 and tryISRCSearch L96: sem <- struct{}{} blocks while the channel
\* holds concurrency tokens; then the cancellation check.  A unit that sees
\* the context cancelled sends its failed Match and leaves; one that passes
\* goes to the ISRC lookup, or to the text search when the track has no ISRC.
UnitStart(i) ==
    /\ Live
    /\ units[i] = "acquire"
    /\ sem < concurrency
    /\ IF ctxDone
       THEN /\ results' = Append(results, NewFailedMatch(i, "context cancelled"))
            /\ wg' = wg - 1
            /\ units' = [units EXCEPT ![i] = "done"]
            /\ UNCHANGED sem
       ELSE /\ sem' = sem + 1
            /\ units' = [units EXCEPT ![i] =
                            IF tracks[i].isrc = "" THEN "text" ELSE "isrc"]
            /\ UNCHANGED <<results, wg>>
    /\ UNCHANGED <<convVars, crashed, closed, calls>>

\* tryISRCSearch L100-109: SearchByISRC; a hit is sent on results.  A panic
\* in this goroutine is not recovered by anyone and ends the process.
UnitSearchByISRC(i) ==
    /\ Live
    /\ units[i] = "isrc"
    /\ \/ /\ \E resp \in ISRCResponses :
               LET m == tryISRCSearch(i, tracks[i], resp)
               IN  /\ Record(i, "SearchByISRC", resp)
                   /\ IF m # NilMatch
                      THEN UnitExit(i, m)
                      ELSE /\ units' = [units EXCEPT ![i] = "text"]
                           /\ UNCHANGED <<results, sem, wg>>
          /\ UNCHANGED crashed
       \/ /\ crashed' = TRUE
          /\ UNCHANGED <<units, results, sem, wg, calls>>
    /\ UNCHANGED <<convVars, closed>>

\* tryMusicSearch L112-147 and matchTrack L88-92: SearchTrack; the Match is
\* sent on results.
UnitSearchTrack(i) ==
    /\ Live
    /\ units[i] = "text"
    /\ \/ /\ \E resp \in TextResponses :
               /\ Record(i, "SearchTrack", resp)
               /\ UnitExit(i, matchTrackText(i, tracks[i], resp))
          /\ UNCHANGED crashed
       \/ /\ crashed' = TRUE
          /\ UNCHANGED <<units, results, sem, wg, calls>>
    /\ UNCHANGED <<convVars, closed>>

\* L57-60: wg.Wait(); close(results).
Closer ==
    /\ Live
    /\ units # <<>> /\ wg = 0 /\ ~closed
    /\ closed' = TRUE
    /\ UNCHANGED <<convVars, crashed, units, sem, wg, results, calls>>

\* The job context is cancelled while Convert runs: the job_timeout
\* deadline passes or the worker context is cancelled at shutdown.
Cancel ==
    /\ Live /\ ~ctxDone
    /\ ctxDone' = TRUE
    /\ cancelledIn' = conversion.status
    /\ UNCHANGED <<jobVars, clock, pc, conversion, guard, pending, ret, crashed,
                   storeVars, playlistName, tracks, matcherVars, aggVars, videoIDs,
                   catalogVars>>

Next ==
    \/ Convert
    \/ RepoCreate
    \/ UpdateStatusFetching
    \/ GetPlaylistTracks
    \/ LogFetch
    \/ UpdateStatusMatching
    \/ AggregatorReceive
    \/ UpdateStatusProgress
    \/ AggregatorReturn
    \/ CreateBatch
    \/ UpdateStatusCreating
    \/ CreatePlaylist
    \/ LogCreateFailed
    \/ LogCreateSuccess
    \/ AddVideosToPlaylist
    \/ SaveStateSet
    \/ SaveStateUpdate
    \/ \E i \in DOMAIN units : UnitStart(i)
    \/ \E i \in DOMAIN units : UnitSearchByISRC(i)
    \/ \E i \in DOMAIN units : UnitSearchTrack(i)
    \/ Closer
    \/ Cancel

Spec == Init /\ [][Next]_vars

\* The converter task: Convert's goroutine, MatchTracks' receive loop
\* included.
ConverterStep ==
    \/ Convert
    \/ RepoCreate
    \/ UpdateStatusFetching
    \/ GetPlaylistTracks
    \/ LogFetch
    \/ UpdateStatusMatching
    \/ AggregatorReceive
    \/ UpdateStatusProgress
    \/ AggregatorReturn
    \/ CreateBatch
    \/ UpdateStatusCreating
    \/ CreatePlaylist
    \/ LogCreateFailed
    \/ LogCreateSuccess
    \/ AddVideosToPlaylist
    \/ SaveStateSet
    \/ SaveStateUpdate

\* The goroutine MatchTracks starts for the i-th track.
UnitStep(i) ==
    /\ i \in DOMAIN units
    /\ (UnitStart(i) \/ UnitSearchByISRC(i) \/ UnitSearchTrack(i))

\* The Go scheduler runs every goroutine that can run, and every external
\* call returns or panics: each task that stays able to take a step takes
\* one.
SpecFair ==
    /\ Init
    /\ [][Next]_vars
    /\ WF_vars(ConverterStep)
    /\ \A i \in 1..MaxTracks : WF_vars(UnitStep(i))
    /\ WF_vars(Closer)

----------------------------------------------------------------------------
\* The Conversion aggregate on its own: any sequence of at most MaxCalls
\* calls of its state methods on a freshly constructed Conversion, as the
\* domain tests drive it.

InitAggregate ==
    /\ job = Job("j1", "u1", "SPOTIFY", "YOUTUBE", "p1", <<>>)
    /\ concurrency = 1
    /\ NoWorker
    /\ ctxDone = FALSE
    /\ cancelledIn = "-"
    /\ clock = 1
    /\ pc = "aggregate"
    /\ conversion = NewConversion(job, 1)
    /\ guard = "none"
    /\ pending = Running
    /\ ret = Running
    /\ crashed = FALSE
    /\ row = NoRow
    /\ snapshot = NoSnapshot
    /\ lastWrite = "none"
    /\ logs = <<>>
    /\ playlistName = ""
    /\ tracks = <<>>
    /\ units = <<>>
    /\ sem = 0
    /\ wg = 0
    /\ results = <<>>
    /\ closed = FALSE
    /\ calls = <<>>
    /\ matches = <<>>
    /\ counters = [processed |-> 0, matched |-> 0, failed |-> 0]
    /\ callbacks = 0
    /\ videoIDs = <<>>
    /\ created = NoPlaylist
    /\ added = NotAdded

\* One call of a state method: c is the aggregate it leaves.
AggregateCall(c) ==
    /\ pc = "aggregate"
    /\ clock < 1 + MaxCalls
    /\ conversion' = c
    /\ clock' = clock + 1
    /\ UNCHANGED <<jobVars, ctxVars, pc, guard, pending, ret, crashed, storeVars,
                   playlistName, tracks, matcherVars, aggVars, videoIDs, catalogVars>>

CallStartFetching == AggregateCall(StartFetching(conversion, clock + 1))

CallStartMatching ==
    \E n \in 0..MaxTracks :
        AggregateCall(StartMatching(conversion, n, "Playlist", clock + 1))

CallUpdateProgress ==
    \E processed \in 0..MaxTracks : \E matched \in 0..processed :
        AggregateCall(UpdateProgress(conversion, processed, matched,
                                     processed - matched, clock + 1))

CallStartCreating == AggregateCall(StartCreating(conversion, clock + 1))

CallComplete ==
    AggregateCall(Complete(conversion, "PL1", "https://youtube/PL1", clock + 1))

CallFail == AggregateCall(Fail(conversion, "no tracks matched", clock + 1))

NextAggregate ==
    \/ CallStartFetching
    \/ CallStartMatching
    \/ CallUpdateProgress
    \/ CallStartCreating
    \/ CallComplete
    \/ CallFail

SpecAggregate == InitAggregate /\ [][NextAggregate]_vars

----------------------------------------------------------------------------
\* The worker loop (worker.Run, worker.processNextJob) of MaxWorkers worker
\* processes on one queue.  Convert is followed here no further than its
\* call and its return.

Workers == 1..MaxWorkers

\* A worker process at the start of Run: its context live, the ticker
\* without a tick, no job, no job context yet, no Conversion persisted.
NewWorker ==
    [pc |-> "select", ctxDone |-> FALSE, tick |-> FALSE, job |-> 0,
     jobCtxDone |-> FALSE, persisted |-> FALSE, result |-> "none"]

\* The process runs: it has neither returned from Run nor died.
Alive(w) == wk[w].pc \notin {"stopped", "crashed"}

InitWorker ==
    /\ job = Job("j1", "u1", "SPOTIFY", "YOUTUBE", "p1", <<>>)
    /\ concurrency = 1
    /\ queue = <<>>
    /\ pushed = 0
    /\ wk = [w \in Workers |-> NewWorker]
    /\ handed = <<>>
    /\ active = {}
    /\ popErrs = 0
    /\ records = [j \in 1..MaxJobs |-> "none"]
    /\ ctxDone = FALSE
    /\ cancelledIn = "-"
    /\ clock = 0
    /\ pc = "worker"
    /\ conversion = NoConversion
    /\ guard = "none"
    /\ pending = Running
    /\ ret = Running
    /\ crashed = FALSE
    /\ row = NoRow
    /\ snapshot = NoSnapshot
    /\ lastWrite = "none"
    /\ logs = <<>>
    /\ playlistName = ""
    /\ tracks = <<>>
    /\ units = <<>>
    /\ sem = 0
    /\ wg = 0
    /\ results = <<>>
    /\ closed = FALSE
    /\ calls = <<>>
    /\ matches = <<>>
    /\ counters = [processed |-> 0, matched |-> 0, failed |-> 0]
    /\ callbacks = 0
    /\ videoIDs = <<>>
    /\ created = NoPlaylist
    /\ added = NotAdded

\* What the worker loop leaves alone: the state of a Convert call.
converterVars ==
    <<job, concurrency, ctxVars, clock, pc, conversion, guard, pending, ret,
      crashed, storeVars, playlistName, tracks, matcherVars, aggVars, videoIDs,
      catalogVars>>

\* jobQueue.Push L34-45: the producer pushes the next job with LPUSH, at
\* the head of the list.
Push ==
    /\ pushed < MaxJobs
    /\ pushed' = pushed + 1
    /\ queue' = <<pushed + 1>> \o queue
    /\ UNCHANGED <<wk, handed, active, popErrs, records, converterVars>>

\* time.NewTicker L37: the ticker sends a tick; its channel holds one.
Tick(w) ==
    /\ Alive(w)
    /\ ~wk[w].tick
    /\ wk' = [wk EXCEPT ![w].tick = TRUE]
    /\ UNCHANGED <<queue, pushed, handed, active, popErrs, records,
                   converterVars>>

\* Run L41-44: the select takes <-ctx.Done() and Run returns.
RunReturn(w) ==
    /\ wk[w].pc = "select"
    /\ wk[w].ctxDone
    /\ wk' = [wk EXCEPT ![w].pc = "stopped"]
    /\ UNCHANGED <<queue, pushed, handed, active, popErrs, records,
                   converterVars>>

\* Run L45-46: the select takes <-ticker.C and calls processNextJob.  With
\* both channels ready the select takes either.
RunTick(w) ==
    /\ wk[w].pc = "select"
    /\ wk[w].tick
    /\ wk' = [wk EXCEPT ![w].pc = "pop", ![w].tick = FALSE]
    /\ UNCHANGED <<queue, pushed, handed, active, popErrs, records,
                   converterVars>>

\* A faulty Pop that reads the tail of the list without removing it; the
\* property C26_PoppedOnce must tell it from Pop.
PopPeeks(w) ==
    /\ wk[w].pc = "pop"
    /\ ~wk[w].ctxDone
    /\ queue # <<>>
    /\ wk' = [wk EXCEPT ![w].pc = "gotjob", ![w].job = queue[Len(queue)]]
    /\ UNCHANGED <<queue, pushed, handed, active, popErrs, records,
                   converterVars>>

\* A faulty Pop after whose error Run ends; the property C25_LoopSurvives
\* must tell it from Pop.
PopErrorEndsRun(w) ==
    /\ wk[w].pc = "pop"
    /\ \/ /\ ~wk[w].ctxDone
          /\ queue # <<>>
          /\ wk' = [wk EXCEPT ![w].pc = "gotjob", ![w].job = queue[Len(queue)]]
          /\ queue' = SubSeq(queue, 1, Len(queue) - 1)
          /\ UNCHANGED popErrs
       \/ /\ ~wk[w].ctxDone
          /\ queue = <<>>
          /\ wk' = [wk EXCEPT ![w].pc = "select"]
          /\ UNCHANGED <<queue, popErrs>>
       \/ /\ wk[w].ctxDone \/ popErrs < MaxPopErrors
          /\ popErrs' = IF wk[w].ctxDone THEN popErrs ELSE popErrs + 1
          /\ wk' = [wk EXCEPT ![w].pc = "stopped"]
          /\ UNCHANGED queue
    /\ UNCHANGED <<pushed, handed, active, records, converterVars>>

\* processNextJob L52-60 and jobQueue.Pop L47-66: BRPOP takes the tail of
\* the list, atomically on the server; an empty list gives redis.Nil after
\* the timeout and Pop returns nil, nil; an error of the transport, or a
\* context that is already cancelled, gives an error.  After nil or an error
\* processNextJob returns to the loop.
Pop(w) ==
    /\ wk[w].pc = "pop"
    /\ \/ /\ ~wk[w].ctxDone
          /\ queue # <<>>
          /\ wk' = [wk EXCEPT ![w].pc = "gotjob", ![w].job = queue[Len(queue)]]
          /\ queue' = SubSeq(queue, 1, Len(queue) - 1)
          /\ UNCHANGED popErrs
       \/ /\ ~wk[w].ctxDone
          /\ queue = <<>>
          /\ wk' = [wk EXCEPT ![w].pc = "select"]
          /\ UNCHANGED <<queue, popErrs>>
       \/ /\ wk[w].ctxDone \/ popErrs < MaxPopErrors
          /\ popErrs' = IF wk[w].ctxDone THEN popErrs ELSE popErrs + 1
          /\ wk' = [wk EXCEPT ![w].pc = "select"]
          /\ UNCHANGED queue
    /\ UNCHANGED <<pushed, handed, active, records, converterVars>>

\* A faulty start that runs Convert under the context of the job before,
\* which its deferred cancel has ended; the property C23_OneConvertAtATime
\* must tell it from StartConvert.
StartConvertKeepsContext(w) ==
    /\ wk[w].pc = "gotjob"
    /\ wk' = [wk EXCEPT ![w].pc = "convert",
                        ![w].jobCtxDone = @ \/ wk[w].ctxDone]
    /\ handed' = Append(handed, [worker |-> w, job |-> wk[w].job,
                                 cancelled |-> wk[w].ctxDone,
                                 timedOut |-> FALSE])
    /\ active' = active \cup {[worker |-> w, job |-> wk[w].job]}
    /\ UNCHANGED <<queue, pushed, popErrs, records, converterVars>>

\* processNextJob L62-67: context.WithTimeout(ctx, JobTimeout) makes a new
\* context, done from the start if ctx is; Convert is called with it.
StartConvert(w) ==
    /\ wk[w].pc = "gotjob"
    /\ wk' = [wk EXCEPT ![w].pc = "convert", ![w].jobCtxDone = wk[w].ctxDone]
    /\ handed' = Append(handed, [worker |-> w, job |-> wk[w].job,
                                 cancelled |-> wk[w].ctxDone,
                                 timedOut |-> FALSE])
    /\ active' = active \cup {[worker |-> w, job |-> wk[w].job]}
    /\ UNCHANGED <<queue, pushed, popErrs, records, converterVars>>

\* Index in handed of the Convert call worker w is in.
CurrentCall(w) ==
    CHOOSE k \in DOMAIN handed :
        /\ handed[k].worker = w
        /\ \A j \in DOMAIN handed : handed[j].worker = w => j <= k

\* The JobTimeout deadline of the running Convert passes: its context is
\* done, the worker's is not touched.
JobTimeout(w) ==
    /\ wk[w].pc = "convert"
    /\ ~wk[w].jobCtxDone
    /\ wk' = [wk EXCEPT ![w].jobCtxDone = TRUE]
    /\ handed' = [handed EXCEPT ![CurrentCall(w)].timedOut = TRUE]
    /\ UNCHANGED <<queue, pushed, active, popErrs, records, converterVars>>

\* Convert L55 (converter.go): conversionRepo.Create has stored the row of
\* the job's Conversion, with status PENDING.
ConvertPersist(w) ==
    /\ wk[w].pc = "convert"
    /\ ~wk[w].persisted
    /\ wk' = [wk EXCEPT ![w].persisted = TRUE]
    /\ records' = [records EXCEPT ![wk[w].job] = ConversionStatusPending]
    /\ UNCHANGED <<queue, pushed, handed, active, popErrs, converterVars>>

\* processNextJob L67-69 and the deferred cancel L64: Convert returns nil
\* or an error, which is logged; processNextJob returns to the loop.
\* Before the row exists Convert returns an error (validation, Create);
\* after, its saveState writes the terminal status to the row, unless
\* conversionRepo.Update fails.
ConvertReturn(w) ==
    /\ wk[w].pc = "convert"
    /\ \E r \in (IF wk[w].persisted THEN {"nil", "error"} ELSE {"error"}) :
          /\ wk' = [wk EXCEPT ![w].pc = "select", ![w].job = 0,
                              ![w].jobCtxDone = TRUE, ![w].persisted = FALSE,
                              ![w].result = r]
          /\ \/ /\ wk[w].persisted
                /\ records' = [records EXCEPT ![wk[w].job] =
                                  IF r = "nil" THEN ConversionStatusCompleted
                                  ELSE ConversionStatusFailed]
             \/ UNCHANGED records
    /\ active' = active \ {[worker |-> w, job |-> wk[w].job]}
    /\ UNCHANGED <<queue, pushed, handed, popErrs, converterVars>>

\* main L181-187 (config.go): a signal cancels the worker's context, and
\* with it the context derived from it for the running Convert.
CancelWorker(w) ==
    /\ Alive(w)
    /\ ~wk[w].ctxDone
    /\ wk' = [wk EXCEPT ![w].ctxDone = TRUE,
                        ![w].jobCtxDone = @ \/ wk[w].pc = "convert"]
    /\ UNCHANGED <<queue, pushed, handed, active, popErrs, records,
                   converterVars>>

\* A faulty crash after which the job is back in the queue, as a queue
\* with redelivery would have it; the property C35_StuckAfterCrash must tell
\* it from Crash.
CrashRequeues(w) ==
    /\ Alive(w)
    /\ wk' = [wk EXCEPT ![w].pc = "crashed"]
    /\ active' = {a \in active : a.worker # w}
    /\ queue' = IF wk[w].job # 0 THEN <<wk[w].job>> \o queue ELSE queue
    /\ UNCHANGED <<pushed, handed, popErrs, records, converterVars>>

\* The worker process dies (killed, or an unrecovered panic in a matcher
\* goroutine): what it holds is gone with it.
Crash(w) ==
    /\ Alive(w)
    /\ wk' = [wk EXCEPT ![w].pc = "crashed"]
    /\ active' = {a \in active : a.worker # w}
    /\ UNCHANGED <<queue, pushed, handed, popErrs, records, converterVars>>

NextWorker ==
    \/ Push
    \/ \E w \in Workers : Tick(w)
    \/ \E w \in Workers : RunReturn(w)
    \/ \E w \in Workers : RunTick(w)
    \/ \E w \in Workers : Pop(w)
    \/ \E w \in Workers : StartConvert(w)
    \/ \E w \in Workers : JobTimeout(w)
    \/ \E w \in Workers : ConvertPersist(w)
    \/ \E w \in Workers : ConvertReturn(w)
    \/ \E w \in Workers : CancelWorker(w)
    \/ \E w \in Workers : Crash(w)

SpecWorker == InitWorker /\ [][NextWorker]_vars

\* The steps of worker w's own loop, which the scheduler runs when they
\* can be taken; Convert is taken to return.
WorkerStep(w) ==
    \/ Tick(w)
    \/ RunReturn(w)
    \/ RunTick(w)
    \/ Pop(w)
    \/ StartConvert(w)
    \/ ConvertPersist(w)
    \/ ConvertReturn(w)

SpecWorkerFair ==
    /\ InitWorker
    /\ [][NextWorker]_vars
    /\ \A w \in Workers : WF_vars(WorkerStep(w))

----------------------------------------------------------------------------
\* One unit of work on its own: the goroutine MatchTracks starts for one
\* track, tried on every source track of LadderSources against every
\* response of the larger catalog, with the history of its catalog calls.

InitLadder ==
    /\ job = Job("j1", "u1", "SPOTIFY", "YOUTUBE", "p1", <<>>)
    /\ concurrency = 1
    /\ NoWorker
    /\ ctxDone = FALSE
    /\ cancelledIn = "-"
    /\ clock = 0
    /\ pc = "ladder"
    /\ conversion = NoConversion
    /\ guard = "none"
    /\ pending = Running
    /\ ret = Running
    /\ crashed = FALSE
    /\ row = NoRow
    /\ snapshot = NoSnapshot
    /\ lastWrite = "none"
    /\ logs = <<>>
    /\ playlistName = "Playlist"
    /\ \E t \in LadderSources : tracks = <<t>>
    /\ units = <<"acquire">>
    /\ sem = 0
    /\ wg = 1
    /\ results = <<>>
    /\ closed = FALSE
    /\ calls = << <<>> >>
    /\ matches = <<>>
    /\ counters = [processed |-> 0, matched |-> 0, failed |-> 0]
    /\ callbacks = 0
    /\ videoIDs = <<>>
    /\ created = NoPlaylist
    /\ added = NotAdded

NextLadder ==
    \/ \E i \in DOMAIN units : UnitStart(i)
    \/ \E i \in DOMAIN units : UnitSearchByISRC(i)
    \/ \E i \in DOMAIN units : UnitSearchTrack(i)
    \/ Closer
    \/ Cancel

SpecLadder == InitLadder /\ [][NextLadder]_vars

----------------------------------------------------------------------------
\* Properties.

\* MatchTracks has just returned to Convert.
MatchTracksReturned == pc = "CreateBatch"

\* Convert has returned to the worker.
ConvertReturned == pc = "returned"

\* C1: when MatchTracks returns it returns exactly one Match per input
\* track: as many Matches as tracks, every Match with a non-nil source, every
\* input track the source of exactly one Match, and a target present exactly
\* when the confidence is not NONE.
C1_OneMatchPerTrack ==
    MatchTracksReturned =>
        /\ Len(matches) = Len(tracks)
        /\ \A k \in DOMAIN matches :
              /\ matches[k].src # 0
              /\ (matches[k].target # NoTrack)
                    <=> (matches[k].confidence # MatchConfidenceNone)
        /\ \A i \in DOMAIN tracks :
              Cardinality({k \in DOMAIN matches : matches[k].src = i}) = 1

\* MatchTracks returns for a two-track list of which one unit saw the
\* context cancelled and the other found a target.
C1_Witness ==
    /\ MatchTracksReturned
    /\ Len(tracks) >= 2
    /\ \E k \in DOMAIN matches : matches[k].error = "context cancelled"
    /\ \E k \in DOMAIN matches : matches[k].confidence # MatchConfidenceNone

\* C2: whenever Convert returns, the Conversion it constructed is COMPLETED
\* or FAILED.
C2_TerminalOnReturn ==
    (ConvertReturned /\ conversion # NoConversion)
        => IsTerminal(conversion.status)

\* C3: no Match with confidence HIGH, MEDIUM or LOW, sent on the results
\* channel or collected by MatchTracks, has a target whose name contains an
\* exclusion term.
C3_NoExcludedTarget ==
    /\ \A k \in DOMAIN results :
          results[k].confidence # MatchConfidenceNone
              => ~isExcluded(results[k].target.name)
    /\ \A k \in DOMAIN matches :
          matches[k].confidence # MatchConfidenceNone
              => ~isExcluded(matches[k].target.name)

\* C4 as stated: once the step of a status transition has finished (the
\* status has been published and Convert is at the next catalog call, or has
\* returned), the durable record's status equals the aggregate's.
C4_PersistedAfterEachTransition ==
    (\/ pc \in {"GetPlaylistTracks", "Receive", "CreatePlaylist"}
     \/ ConvertReturned /\ row # NoRow)
        => row.status = conversion.status

\* C4: Convert writes the durable record when it creates the Conversion and
\* at the terminal transition only.  Until the Conversion is terminal the
\* record keeps status PENDING; the record's status is never FETCHING,
\* MATCHING or CREATING; and when Convert has returned and its last
\* conversionRepo.Update succeeded, the record has the aggregate's status,
\* error message and completion time.
C4_TerminalWritesOnly ==
    /\ (row # NoRow /\ ~IsTerminal(conversion.status))
          => row.status = ConversionStatusPending
    /\ row # NoRow
          => row.status \in {ConversionStatusPending, ConversionStatusCompleted,
                             ConversionStatusFailed}
    /\ (ConvertReturned /\ lastWrite = "ok")
          => /\ row.status = conversion.status
             /\ row.error_message = nullableString(conversion.errorMessage)
             /\ row.completed_at = conversion.completedAt

\* Convert has returned a completed Conversion whose terminal write reached
\* the durable record.
C4_Witness ==
    /\ ConvertReturned
    /\ lastWrite = "ok"
    /\ conversion.status = ConversionStatusCompleted
    /\ row.status = ConversionStatusCompleted

\* C5: whenever Convert returns with the Conversion FAILED, the snapshot in
\* the keyed store and the durable record both have status FAILED and the
\* aggregate's error message.
C5_FailedIsPublished ==
    (ConvertReturned /\ conversion.status = ConversionStatusFailed)
        => /\ snapshot.status = ConversionStatusFailed
           /\ snapshot.error = conversion.errorMessage
           /\ row.status = ConversionStatusFailed
           /\ row.error_message = <<conversion.errorMessage>>

\* The messages handleError is called with in Convert.
StepMessages ==
    {"failed to fetch playlist", "no tracks matched", "failed to create playlist",
     "failed to add videos to playlist"}

\* C6: if the job context was cancelled while the Conversion was FETCHING,
\* MATCHING or CREATING, Convert returns with the Conversion FAILED and an
\* error message that carries the cancellation error.  (Stated for runs
\* without a panic in which the playlist, if it was fetched, left at least
\* one track to match.)
C6_CancellationFails ==
    (/\ ConvertReturned
     /\ guard = "armed"
     /\ cancelledIn \in {ConversionStatusFetching, ConversionStatusMatching,
                         ConversionStatusCreating}
     /\ playlistName # "" => Len(tracks) > 0)
        => /\ conversion.status = ConversionStatusFailed
           /\ \E m \in StepMessages :
                 conversion.errorMessage = FullMessage(m, ErrCancelled)

\* C7: once the Conversion has been persisted, a panic in the converter
\* task or in a matcher unit does not leave Convert (the first panic of a
\* run never ends the process), and when Convert returns after a panic was
\* recovered the Conversion is FAILED with "internal error: <value>".
C7_PanicIsContained ==
    /\ (row # NoRow /\ guard = "armed") => ~crashed
    /\ (ConvertReturned /\ guard = "running")
          => /\ conversion.status = ConversionStatusFailed
             /\ conversion.errorMessage = "internal error: " \o PanicValue

\* C8: for any sequence of calls of the aggregate's state methods, a call
\* made when the status is COMPLETED or FAILED changes neither the status
\* nor completed_at.
C8_TerminalIsFinal ==
    [][IsTerminal(conversion.status)
          => /\ conversion'.status = conversion.status
             /\ conversion'.completedAt = conversion.completedAt]_vars

\* The allowed transitions of the status.
AllowedTransitions ==
    { <<ConversionStatusPending, ConversionStatusFetching>>,
      <<ConversionStatusFetching, ConversionStatusMatching>>,
      <<ConversionStatusMatching, ConversionStatusCreating>>,
      <<ConversionStatusCreating, ConversionStatusCompleted>> }
    \cup { <<s, ConversionStatusFailed>> :
              s \in {ConversionStatusPending, ConversionStatusFetching,
                     ConversionStatusMatching, ConversionStatusCreating} }

\* The statuses reachable from s by one or more allowed transitions.
ReachableFrom(s) ==
    LET step(S) == S \cup {e[2] : e \in {f \in AllowedTransitions : f[1] \in S}}
        first == {e[2] : e \in {f \in AllowedTransitions : f[1] = s}}
    IN  step(step(step(step(first))))

\* C9: in every execution of Convert each change of the Conversion's status
\* is an allowed transition (after its construction in PENDING), and once
\* finalized (completed_at set by Complete or Fail) it is not finalized
\* again.
C9_AllowedTransitionsOnly ==
    [][/\ (conversion # NoConversion /\ conversion'.status # conversion.status)
            => <<conversion.status, conversion'.status>> \in AllowedTransitions
       /\ conversion.completedAt # 0
            => conversion'.completedAt = conversion.completedAt]_vars

\* C10: each status written to the keyed store under the job's key equals
\* the one written before it or is reachable from it by allowed transitions
\* (so a terminal status is never overwritten by another status).
C10_SnapshotInOrder ==
    [][(snapshot # NoSnapshot /\ snapshot'.status # snapshot.status)
          => snapshot'.status \in ReachableFrom(snapshot.status)]_vars

\* The units of work that hold a slot of the semaphore.
SlotHolders == {i \in DOMAIN units : units[i] \in {"isrc", "text"}}

\* C11: at every moment the units of work that hold a slot (past the
\* semaphore, at the cancellation check or a catalog call) are at most
\* concurrency, and the semaphore holds one token for each of them.
C11_SlotsBounded ==
    /\ Cardinality(SlotHolders) <= concurrency
    /\ sem = Cardinality(SlotHolders)

\* One unit holds the only slot while another waits for it.
C11_Witness ==
    /\ concurrency = 1
    /\ \E i \in DOMAIN units : units[i] = "text"
    /\ \E i \in DOMAIN units : units[i] = "acquire"

\* The Matches received so far whose confidence is not NONE.
Hits == {k \in DOMAIN matches : matches[k].confidence # MatchConfidenceNone}

\* C12: the progress callback has been invoked once per Match received, the
\* latest call with processed equal to their number, matched equal to the
\* number of them with a confidence other than NONE and failed the rest;
\* when MatchTracks returns there were |tracks| invocations; and from one
\* invocation to the next processed grows by one, matched and failed do not
\* decrease.
C12_ProgressCallbacks ==
    /\ [](/\ callbacks = Len(matches)
          /\ counters.processed = callbacks
          /\ counters.matched = Cardinality(Hits)
          /\ counters.matched + counters.failed = counters.processed
          /\ callbacks > 0
                => /\ conversion.processedTracks = counters.processed
                   /\ conversion.matchedTracks = counters.matched
                   /\ conversion.failedTracks = counters.failed
          /\ MatchTracksReturned => callbacks = Len(tracks))
    /\ [][callbacks' # callbacks
             => /\ callbacks' = callbacks + 1
                /\ counters'.processed = counters.processed + 1
                /\ counters'.matched >= counters.matched
                /\ counters'.failed >= counters.failed]_vars

\* MatchTracks has returned after two callbacks, one for a matched track
\* and one for a failed one.
C12_Witness ==
    /\ MatchTracksReturned
    /\ callbacks = 2
    /\ counters.matched = 1
    /\ counters.failed = 1

\* C14: every snapshot in the keyed store has a progress between 0 and 100,
\* matched + failed = processed, and processed <= total.
C14_SnapshotWellFormed ==
    snapshot # NoSnapshot
        => /\ 0 <= snapshot.progress
           /\ snapshot.progress <= 100
           /\ snapshot.matchedTracks + snapshot.failedTracks
                 = snapshot.processedTracks
           /\ snapshot.processedTracks <= snapshot.totalTracks

\* A snapshot published half way through a two-track job.
C14_Witness ==
    /\ snapshot.totalTracks = 2
    /\ snapshot.processedTracks = 1
    /\ snapshot.progress = 50

\* C13: MatchTracks returns only after every unit has sent its Match and
\* left (all Matches received, the channel closed, no slot held), and with
\* concurrency >= 1 a MatchTracks call that has started its units eventually
\* returns, whenever the context is cancelled, unless a panic ends it.
C13_MatchTracksTerminates ==
    /\ []((MatchTracksReturned /\ Len(tracks) > 0)
            => /\ \A i \in DOMAIN units : units[i] = "done"
               /\ wg = 0 /\ sem = 0 /\ closed /\ results = <<>>
               /\ Len(matches) = Len(units))
    /\ (pc = "Receive" /\ concurrency >= 1)
          ~> (MatchTracksReturned \/ crashed \/ guard = "running")

\* MatchTracks has returned for two tracks that shared a single slot, the
\* context having been cancelled on the way.
C13_Witness ==
    /\ MatchTracksReturned
    /\ Len(tracks) = 2
    /\ concurrency = 1
    /\ ctxDone
    /\ \E k \in DOMAIN matches : matches[k].error # "context cancelled"

\* Convert is past the "no tracks matched" check, on its way to creating
\* the target playlist or further.
PastMatching ==
    \/ pc \in {"SetCreating", "CreatePlaylist", "LogCreateFailed",
               "LogCreateSuccess", "AddVideos"}
    \/ conversion.status \in {ConversionStatusCreating, ConversionStatusCompleted}
    \/ created # NoPlaylist
    \/ \E k \in DOMAIN logs : logs[k].step = "CREATE_TARGET_PLAYLIST"

\* C15: without a Match of confidence other than NONE the Conversion never
\* enters CREATING, CreatePlaylist is never called and no
\* CREATE_TARGET_PLAYLIST audit row is written; when matching ends so (no
\* track fetched, none left by the filter, or none matched) the step after
\* it takes the Conversion from MATCHING to FAILED with error "no tracks
\* matched", and that is the error Convert returns.
C15_NoTracksMatched ==
    /\ [](PastMatching => Hits # {})
    /\ []((ConvertReturned /\ guard = "armed"
             /\ conversion.errorMessage = "no tracks matched")
            => /\ ret = ReturnError("no tracks matched")
               /\ conversion.status = ConversionStatusFailed)
    /\ [][(MatchTracksReturned /\ Hits = {} /\ pc' # pc /\ guard' = "armed")
             => /\ conversion.status = ConversionStatusMatching
                /\ conversion'.status = ConversionStatusFailed
                /\ conversion'.errorMessage = "no tracks matched"
                /\ pending' = ReturnError("no tracks matched")
                /\ created' = NoPlaylist]_vars

\* Convert has returned "no tracks matched" for a playlist whose tracks all
\* failed to match.
C15_Witness ==
    /\ ConvertReturned
    /\ ret = ReturnError("no tracks matched")
    /\ Len(matches) = 2
    /\ Hits = {}

\* C16: when Convert returns, the Conversion carries a target playlist id
\* and url exactly when its status is COMPLETED; a FAILED Conversion
\* carries neither.
C16_TargetIffCompleted ==
    (ConvertReturned /\ conversion # NoConversion)
        => /\ (conversion.targetPlaylistID # "")
                 <=> (conversion.status = ConversionStatusCompleted)
           /\ (conversion.targetPlaylistURL # "")
                 <=> (conversion.status = ConversionStatusCompleted)

----------------------------------------------------------------------------
\* The ladder of one unit of work (specification SpecLadder).

\* The unit of work has sent its Match.
UnitDone == pc = "ladder" /\ units = <<"done">> /\ Len(results) = 1

\* The last catalog call of the unit of work.
LastCall == calls[1][Len(calls[1])]

\* The unit of work ended on a text search.
EndedOnText ==
    /\ UnitDone
    /\ calls[1] # <<>>
    /\ LastCall.op = "SearchTrack"

\* C17: a track with a non-empty ISRC is looked up by SearchByISRC before
\* anything else; a non-nil track returned without error is the target of
\* the Match, (HIGH, "isrc"), and no text search follows; an error or a nil
\* track sends the unit to the text search; a track with an empty ISRC is
\* never looked up by ISRC.
C17_ISRCRungFirst ==
    LET h == calls[1]
        hit == /\ h[1].resp.err = ""
               /\ h[1].resp.value # NoTrack
    IN  pc = "ladder" =>
          /\ tracks[1].isrc = "" =>
                \A k \in DOMAIN h : h[k].op # "SearchByISRC"
          /\ (tracks[1].isrc # "" /\ h # <<>>) =>
                /\ h[1].op = "SearchByISRC"
                /\ \A k \in 2..Len(h) : h[k].op = "SearchTrack"
                /\ hit =>
                      /\ Len(h) = 1
                      /\ units = <<"done">>
                      /\ results = <<NewTrackMatch(1, h[1].resp.value,
                                                   MatchConfidenceHigh, "isrc")>>
                /\ ~hit =>
                      \/ units = <<"text">> /\ Len(h) = 1 /\ results = <<>>
                      \/ /\ units = <<"done">>
                         /\ Len(h) = 2
                         /\ Len(results) = 1
                         /\ results[1].method # "isrc"

\* A track with an ISRC was found by it: one catalog call, no text search.
C17_Witness ==
    /\ UnitDone
    /\ tracks[1].isrc # ""
    /\ Len(calls[1]) = 1
    /\ calls[1][1].op = "SearchByISRC"
    /\ results[1].method = "isrc"
    /\ results[1].target = calls[1][1].resp.value

\* C18: when the text search returns candidates of which one at least is
\* not excluded, the Match has for target the first of them in returned
\* order that is not excluded, and is (HIGH, "exact_match") if the source
\* artist is found in the target's artist or name and the source name in
\* the target's name, both case-folded, (MEDIUM, "partial_match") if exactly
\* one is, (LOW, "music_search") if neither.
C18_ScoredOnFirstKept ==
    LET cands == LastCall.resp.value
        kept == {k \in DOMAIN cands : ~isExcluded(cands[k].name)}
        first == CHOOSE k \in kept : \A j \in kept : k <= j
        src == tracks[1]
        A == \/ Contains(ToLower(cands[first].artist), ToLower(src.artist))
             \/ Contains(ToLower(cands[first].name), ToLower(src.artist))
        T == Contains(ToLower(cands[first].name), ToLower(src.name))
        m == results[1]
    IN  (EndedOnText /\ LastCall.resp.err = "" /\ kept # {}) =>
          /\ m.src = 1
          /\ m.target = cands[first]
          /\ m.error = ""
          /\ (A /\ T) =>
                m.confidence = MatchConfidenceHigh /\ m.method = "exact_match"
          /\ (A /\ ~T) \/ (~A /\ T) =>
                m.confidence = MatchConfidenceMedium /\ m.method = "partial_match"
          /\ (~A /\ ~T) =>
                m.confidence = MatchConfidenceLow /\ m.method = "music_search"

\* The text search returned an excluded candidate and then one that names
\* the source artist in its title only: the Match is scored on the second.
C18_Witness ==
    /\ EndedOnText
    /\ Len(LastCall.resp.value) = 2
    /\ isExcluded(LastCall.resp.value[1].name)
    /\ LastCall.resp.value[2].platformId = "yt5"
    /\ results[1].target = LastCall.resp.value[2]
    /\ results[1].confidence = MatchConfidenceMedium

\* C19: a text search that fails with a transport error gives a failed
\* Match (confidence NONE, no target) whose error is the message of the
\* transport error.
C19_TransportErrorReported ==
    (EndedOnText /\ LastCall.resp.err = ErrTransport) =>
        results[1] = NewFailedMatch(1, ErrTransport)

\* C20: a text search that returns an empty list, or candidates that are
\* all excluded, gives a Match of confidence NONE, without target, with the
\* error "no match found".
C20_NoMatchFound ==
    LET cands == LastCall.resp.value
    IN  (/\ EndedOnText
         /\ LastCall.resp.err = ""
         /\ \A k \in DOMAIN cands : isExcluded(cands[k].name)) =>
            /\ results[1].confidence = MatchConfidenceNone
            /\ results[1].target = NoTrack
            /\ results[1].method = ""
            /\ results[1].error = "no match found"

\* The text search returned one candidate, a live recording, and the unit
\* sent "no match found".
C20_Witness ==
    /\ EndedOnText
    /\ LastCall.resp.err = ""
    /\ Len(LastCall.resp.value) = 1
    /\ isExcluded(LastCall.resp.value[1].name)
    /\ results[1].error = "no match found"

----------------------------------------------------------------------------
\* C21: for a malformed job (nil, empty job id, empty user id, empty source
\* playlist id, source or target platform not a known one) Convert returns
\* an error and nothing is ever created: no row, no snapshot, no audit row,
\* no catalog call; for a well-formed job the Conversion NewConversion makes
\* has the job's id, status PENDING and zero counters.
C21_MalformedJobRejected ==
    LET platforms == {"SPOTIFY", "YOUTUBE"}
        malformed == \/ job.nil
                     \/ job.jobId = ""
                     \/ job.userId = ""
                     \/ job.sourcePlaylistId = ""
                     \/ job.sourcePlatform \notin platforms
                     \/ job.targetPlatform \notin platforms
    IN  /\ malformed =>
              /\ conversion = NoConversion
              /\ row = NoRow /\ lastWrite = "none"
              /\ snapshot = NoSnapshot
              /\ logs = <<>>
              /\ playlistName = "" /\ tracks = <<>> /\ units = <<>>
              /\ created = NoPlaylist /\ added = NotAdded
              /\ ~crashed
              /\ ConvertReturned =>
                    /\ ret.kind = "error"
                    /\ ret.msg # ""
        /\ (~malformed /\ pc = "Create") =>
              /\ conversion.id = job.jobId
              /\ conversion.status = ConversionStatusPending
              /\ conversion.totalTracks = 0
              /\ conversion.processedTracks = 0
              /\ conversion.matchedTracks = 0
              /\ conversion.failedTracks = 0

\* Convert has returned the validation error of a job without user id.
C21_Witness ==
    /\ ConvertReturned
    /\ ~job.nil
    /\ job.userId = ""
    /\ ret = ReturnError("failed to create conversion: user ID cannot be empty")

----------------------------------------------------------------------------
\* Convert has returned after AddVideosToPlaylist succeeded: the fetch, a
\* match, the playlist creation and the attachment all succeeded.
ReturnedAfterAttach == ConvertReturned /\ added # NotAdded

\* The audit rows of a run in which everything succeeded, as the code builds
\* them: the fetch row, the batch, the creation row.
AuditOfSuccess(fetchKept, batchKept, createKept) ==
    (IF fetchKept THEN <<NewFetchPlaylistLog("SUCCESS", "")>> ELSE <<>>)
    \o (IF batchKept THEN MatchLogs(tracks, matches) ELSE <<>>)
    \o (IF createKept THEN <<NewCreatePlaylistLog("SUCCESS", "")>> ELSE <<>>)

----------------------------------------------------------------------------
\* The worker loop (specifications SpecWorker and SpecWorkerFair).

\* C23: a worker never has two Convert calls in progress; the Convert of a
\* job starts when none of that worker is running, under a context of its
\* own that is done at the start only if the worker's context is, whatever
\* happened to the context of the job before; a deadline that passes ends
\* the running job's context and leaves the worker's alone.
C23_OneConvertAtATime ==
    /\ [](\A w \in Workers :
            /\ Cardinality({a \in active : a.worker = w}) <= 1
            /\ (wk[w].pc = "convert") <=> (\E a \in active : a.worker = w))
    /\ [][\A w \in Workers :
            /\ (wk[w].pc # "convert" /\ wk'[w].pc = "convert") =>
                  /\ \A a \in active : a.worker # w
                  /\ wk'[w].jobCtxDone = wk[w].ctxDone
            /\ (wk[w].pc = "convert" /\ ~wk[w].jobCtxDone /\ wk'[w].jobCtxDone
                   /\ wk'[w].pc = "convert" /\ ~wk'[w].ctxDone)
                  => /\ handed'[CurrentCall(w)].timedOut
                     /\ \A v \in Workers \ {w} : wk'[v] = wk[v]]_vars

\* A worker is in the Convert of its second job, with a live context, after
\* the deadline of its first job passed.
C23_Witness ==
    \E w \in Workers :
        /\ wk[w].pc = "convert"
        /\ ~wk[w].jobCtxDone
        /\ Len(handed) = 2
        /\ handed[1].worker = w /\ handed[2].worker = w
        /\ handed[1].timedOut

\* C24: once the worker's context is cancelled, no job is handed to Convert
\* by that worker: no Convert call starts under a worker context that is
\* already cancelled.
C24_NothingStartsAfterCancel ==
    \A k \in DOMAIN handed : ~handed[k].cancelled

\* Job j has been handed to Convert.
Handed(j) == \E k \in DOMAIN handed : handed[k].job = j

\* Job j is in the queue.
Queued(j) == \E k \in DOMAIN queue : queue[k] = j

\* No worker polls any more: each is cancelled or dead.
NobodyPolls == \A w \in Workers : wk[w].ctxDone \/ wk[w].pc = "crashed"

C26_PoppedOnce ==
    \A j \in 1..MaxJobs :
        /\ Cardinality({k \in DOMAIN queue : queue[k] = j})
             + Cardinality({w \in Workers : wk[w].job = j})
             + Cardinality({k \in DOMAIN handed :
                              handed[k].job = j /\ wk[handed[k].worker].job # j})
             <= 1
        /\ Cardinality({k \in DOMAIN handed : handed[k].job = j}) <= 1
        /\ Cardinality({a \in active : a.job = j}) <= 1
        /\ j > pushed => ~Queued(j) /\ ~Handed(j)

\* One worker died holding the job it had popped; the job is not in the
\* queue, and the other worker is in the Convert of the other job.
C26_Witness ==
    \E w, v \in Workers :
        /\ wk[w].pc = "crashed" /\ wk[w].job = 1
        /\ ~Handed(1)
        /\ queue = <<>>
        /\ wk[v].pc = "convert" /\ wk[v].job = 2

----------------------------------------------------------------------------
\* handleError has been called: it has marked the Conversion FAILED and
\* Convert is in its saveState, or has returned from it.
InHandleError == pending.kind = "error" /\ pc \in {"SaveSet", "SaveUpdate", "returned"}

\* C27: handleError(msg, err) sets the error message to msg for a nil err
\* and to msg: err otherwise and makes the Conversion FAILED; no step of
\* Convert follows it (no playlist is created or filled, the Conversion is
\* not completed); Convert returns an error with exactly that message, and
\* by then the snapshot and the durable record are FAILED with that message.
C27_FailureFunnel ==
    /\ [](InHandleError =>
            /\ conversion.status = ConversionStatusFailed
            /\ conversion.errorMessage = pending.msg
            /\ \E m \in StepMessages, e \in {"", ErrCancelled, ErrTransport} :
                  pending.msg = IF e = "" THEN m ELSE m \o ": " \o e
            /\ conversion.targetPlaylistID = ""
            /\ added = NotAdded)
    /\ []((InHandleError /\ ConvertReturned) =>
            /\ ret = pending
            /\ snapshot.status = ConversionStatusFailed
            /\ snapshot.error = ret.msg
            /\ row.status = ConversionStatusFailed
            /\ row.error_message = <<ret.msg>>)
    /\ [][InHandleError =>
            /\ pending' = pending
            /\ created' = created /\ added' = added
            /\ matches' = matches /\ logs' = logs
            /\ conversion' = conversion]_vars

----------------------------------------------------------------------------
\* C28: a unit of work that finds the context cancelled at its entry check
\* sends one failed Match with error "context cancelled", makes no catalog
\* call and holds no slot afterwards; a unit that passed the check makes
\* its catalog calls to the end of the ladder and sends the ladder's Match,
\* also when the context is cancelled meanwhile.
C28_CancelledAtEntry ==
    /\ [][(pc = "ladder" /\ units[1] = "acquire" /\ units'[1] # "acquire") =>
            IF ctxDone
            THEN /\ units'[1] = "done"
                 /\ results' = <<NewFailedMatch(1, "context cancelled")>>
                 /\ calls' = calls
                 /\ sem' = 0
                 /\ wg' = 0
            ELSE /\ units'[1] \in {"isrc", "text"}
                 /\ results' = <<>>
                 /\ sem' = 1]_vars
    /\ [][(pc = "ladder" /\ units[1] \in {"isrc", "text"} /\ units'[1] # units[1]) =>
            /\ Len(calls'[1]) = Len(calls[1]) + 1
            /\ units'[1] = "done" =>
                  /\ Len(results') = 1
                  /\ results'[1].src = 1
                  /\ results'[1].error # "context cancelled"
                  /\ sem' = 0
                  /\ wg' = 0]_vars
    /\ []((UnitDone /\ calls[1] = <<>>) =>
            results[1] = NewFailedMatch(1, "context cancelled"))
    /\ []((UnitDone /\ calls[1] # <<>>) =>
            \/ results[1].method = "isrc"
            \/ /\ LastCall.op = "SearchTrack"
               /\ results[1] = matchTrackText(1, tracks[1], LastCall.resp))

\* The unit found the context cancelled at its entry check and sent its
\* failed Match without a catalog call; the closer then closed the channel.
C28_Witness ==
    /\ UnitDone
    /\ ctxDone
    /\ results[1].error = "context cancelled"
    /\ calls[1] = <<>>
    /\ sem = 0
    /\ closed

----------------------------------------------------------------------------
\* C29: the callback is invoked by the aggregator alone, in the converter
\* task: a callback starts when the one before has returned, a step of a
\* matcher unit writes neither the counters nor the Conversion (it sends
\* one Match on the result channel at most), and every write of the
\* counters, of the matches or of the Conversion is a step of the converter
\* task.
C29_SingleAggregator ==
    /\ [][callbacks' # callbacks =>
            /\ pc = "Receive" /\ pc' = "SetProgress"
            /\ callbacks' = callbacks + 1
            /\ Len(matches') = callbacks'
            /\ counters'.processed = callbacks']_vars
    /\ [][(units' # units /\ units # <<>>) =>
            /\ pc' = pc
            /\ counters' = counters /\ callbacks' = callbacks
            /\ matches' = matches
            /\ conversion' = conversion
            /\ snapshot' = snapshot /\ row' = row
            /\ \/ results' = results
               \/ \E i \in DOMAIN units :
                     /\ units[i] # "done" /\ units'[i] = "done"
                     /\ Len(results') = Len(results) + 1
                     /\ results'[Len(results')].src = i]_vars
    /\ [][(conversion' # conversion \/ counters' # counters \/ matches' # matches)
            => /\ units' = units /\ sem' = sem /\ wg' = wg
               /\ Len(results') <= Len(results)
               /\ (pc' # pc \/ guard' # guard)]_vars

\* The callback for the first Match is publishing while the unit of the
\* other track is still at its catalog call.
C29_Witness ==
    /\ pc = "SetProgress"
    /\ callbacks = 1
    /\ \E i \in DOMAIN units : units[i] \in {"isrc", "text"}

----------------------------------------------------------------------------
\* The converter task is past AddVideosToPlaylist.
PastAttach == pc \in {"SaveSet", "SaveUpdate", "returned", "crashed"}

\* The target platform ids of the Matches received whose confidence is not
\* NONE, by increasing position in the result list.
HitTargetIDs ==
    LET nth(n) == CHOOSE k \in Hits : Cardinality({j \in Hits : j < k}) = n - 1
    IN  [n \in 1..Cardinality(Hits) |-> matches[nth(n)].target.platformId]

\* C30: AddVideosToPlaylist is called once at most in a Convert, after
\* CreatePlaylist succeeded and nowhere else, for the playlist id that
\* CreatePlaylist returned and with the target platform ids of the Matches
\* whose confidence is not NONE, all of them and no other, in the order of
\* the Matcher's result list.
C30_AttachedOnce ==
    /\ [](pc = "AddVideos" =>
            /\ created # NoPlaylist /\ created.id # ""
            /\ added = NotAdded
            /\ videoIDs = HitTargetIDs
            /\ Len(matches) = Len(tracks))
    /\ [][added' # added =>
            /\ pc = "AddVideos"
            /\ added = NotAdded
            /\ added'.playlistID = created.id
            /\ added'.videoIDs = HitTargetIDs
            /\ HitTargetIDs # <<>>]_vars
    /\ [][pc' = "AddVideos" => pc \in {"LogCreateSuccess", "AddVideos"}]_vars
    /\ [][pc = "AddVideos" => pc' = "AddVideos" \/ PastAttach']_vars
    /\ [][PastAttach => PastAttach']_vars

\* Both tracks matched, with different targets, and their ids were attached
\* to the created playlist in the order of the result list.
C30_Witness ==
    /\ ConvertReturned
    /\ Len(matches) = 2
    /\ added.playlistID = "PL1"
    /\ Len(added.videoIDs) = 2
    /\ added.videoIDs[1] # added.videoIDs[2]
    /\ added.videoIDs[1] = matches[1].target.platformId
    /\ added.videoIDs[2] = matches[2].target.platformId

----------------------------------------------------------------------------
\* The MATCH_TRACK row the k-th Match received is to have: SUCCESS with the
\* source and the target id for a confidence other than NONE, FAILED with
\* the source id and the Match's error otherwise.
RowOfMatch(k) ==
    IF matches[k].confidence # MatchConfidenceNone
    THEN [step |-> "MATCH_TRACK", status |-> "SUCCESS",
          sourceTrackID |-> tracks[matches[k].src].platformId,
          targetTrackID |-> matches[k].target.platformId,
          errorMessage |-> ""]
    ELSE [step |-> "MATCH_TRACK", status |-> "FAILED",
          sourceTrackID |-> tracks[matches[k].src].platformId,
          targetTrackID |-> "",
          errorMessage |-> matches[k].error]

\* The MATCH_TRACK rows of the audit log, in order.
MatchRows(rows) ==
    LET isMatch(r) == r.step = "MATCH_TRACK"
    IN  SelectSeq(rows, isMatch)

\* C31: the MATCH_TRACK rows are written by one write, after matching: one
\* row per Match in Match order, SUCCESS with source and target identity
\* iff the Match's confidence is not NONE, FAILED with the source identity
\* and the Match's error otherwise; no CREATE_TARGET_PLAYLIST row precedes
\* them.
C31_AuditBatch ==
    /\ [][MatchRows(logs') # MatchRows(logs) =>
            /\ pc = "CreateBatch"
            /\ MatchRows(logs) = <<>>
            /\ Len(matches) = Len(tracks)
            /\ logs' = logs \o [k \in DOMAIN matches |-> RowOfMatch(k)]
            /\ \A k \in DOMAIN logs : logs[k].step # "CREATE_TARGET_PLAYLIST"]_vars
    /\ [](\A j, k \in DOMAIN logs :
            (logs[j].step = "CREATE_TARGET_PLAYLIST" /\ logs[k].step = "MATCH_TRACK")
                => k < j)
    /\ [](MatchRows(logs) # <<>> =>
            /\ Len(MatchRows(logs)) = Len(matches)
            /\ \A k \in DOMAIN matches : MatchRows(logs)[k] = RowOfMatch(k))

\* The batch of a playlist of two tracks, one matched and one not, is in
\* the audit log, followed by the creation row.
C31_Witness ==
    /\ Len(MatchRows(logs)) = 2
    /\ \E k \in 1..2 : MatchRows(logs)[k].status = "SUCCESS"
    /\ \E k \in 1..2 : MatchRows(logs)[k].status = "FAILED"
    /\ logs[Len(logs)].step = "CREATE_TARGET_PLAYLIST"

----------------------------------------------------------------------------
\* The positions of the converter task at which it makes an auxiliary
\* write: a status publication, an audit row, the audit batch.
AuxiliaryWrites ==
    {"SetFetching", "LogFetch", "SetMatching", "SetProgress", "CreateBatch",
     "SetCreating", "LogCreateFailed", "LogCreateSuccess", "SaveSet"}

\* Where the converter task goes from such a position, with which status
\* and which value to return, when the write succeeds.
AfterWrite ==
    CASE pc = "SetFetching" ->
           [pc |-> "GetPlaylistTracks", status |-> conversion.status,
            pending |-> pending]
      [] pc = "LogFetch" ->
           [pc |-> "SetMatching", status |-> ConversionStatusMatching,
            pending |-> pending]
      [] pc = "SetMatching" ->
           [pc |-> IF Len(tracks) = 0 THEN "CreateBatch" ELSE "Receive",
            status |-> conversion.status, pending |-> pending]
      [] pc = "SetProgress" ->
           [pc |-> "Receive", status |-> conversion.status, pending |-> pending]
      [] pc = "CreateBatch" /\ Hits = {} ->
           [pc |-> "SaveSet", status |-> ConversionStatusFailed,
            pending |-> ReturnError("no tracks matched")]
      [] pc = "CreateBatch" /\ Hits # {} ->
           [pc |-> "SetCreating", status |-> ConversionStatusCreating,
            pending |-> pending]
      [] pc = "SetCreating" ->
           [pc |-> "CreatePlaylist", status |-> conversion.status,
            pending |-> pending]
      [] pc = "LogCreateFailed" ->
           [pc |-> "SaveSet", status |-> ConversionStatusFailed,
            pending |-> ReturnError("failed to create playlist: " \o pending.msg)]
      [] pc = "LogCreateSuccess" ->
           [pc |-> "AddVideos", status |-> conversion.status, pending |-> pending]
      [] pc = "SaveSet" ->
           [pc |-> "SaveUpdate", status |-> conversion.status, pending |-> pending]
      [] OTHER -> [pc |-> pc, status |-> conversion.status, pending |-> pending]

\* C32: an auxiliary write that fails (a status publication, an audit row,
\* the MATCH_TRACK batch) changes neither the status the Conversion takes
\* next nor what Convert goes on to do and to return: the step that makes
\* the write ends as it does when the write succeeds, stored or not.
C32_AuxiliaryWrites ==
    [][(/\ pc \in AuxiliaryWrites
        /\ pc' # pc
        /\ guard' = guard
        /\ crashed' = crashed) =>
            /\ pc' = AfterWrite.pc
            /\ conversion'.status = AfterWrite.status
            /\ pending' = AfterWrite.pending
            /\ ret' = ret
            /\ row' = row
            /\ created' = created /\ added' = added]_vars

\* Every status publication and every audit write of the run failed, and
\* Convert has returned nil with the Conversion COMPLETED.
C32_Witness ==
    /\ ConvertReturned
    /\ ret = ReturnNil
    /\ conversion.status = ConversionStatusCompleted
    /\ snapshot = NoSnapshot
    /\ logs = <<>>
    /\ Len(matches) = 2

----------------------------------------------------------------------------
\* The fetched tracks whose platform id is among the job's selected ids, in
\* fetched order.
SelectedOf(fetched) ==
    LET ids == {job.selectedTrackIds[k] : k \in DOMAIN job.selectedTrackIds}
        chosen(t) == t.platformId \in ids
    IN  SelectSeq(fetched, chosen)

\* C33: with a non-empty list of selected ids the tracks handed to the
\* Matcher are the fetched tracks whose platform id is in the list, in
\* fetched order; with an empty list they are all the fetched tracks; total
\* is their number, and one unit of work is started for each.
C33_SelectedSubset ==
    /\ [][(pc = "LogFetch" /\ pc' = "SetMatching") =>
            /\ tracks' = IF job.selectedTrackIds # <<>>
                         THEN SelectedOf(tracks) ELSE tracks
            /\ conversion'.totalTracks = Len(tracks')]_vars
    /\ [][(pc \notin {"GetPlaylistTracks", "LogFetch"}) => tracks' = tracks]_vars
    /\ [][(pc = "SetMatching" /\ pc' = "Receive") =>
            DOMAIN units' = DOMAIN tracks]_vars
    /\ [](pc \in {"Receive", "SetProgress"} =>
            /\ DOMAIN units = DOMAIN tracks
            /\ conversion.totalTracks = Len(tracks))

\* Of two fetched tracks the job selected the second (and one that is not
\* in the playlist): the Matcher works on that one track.
C33_Witness ==
    /\ pc = "Receive"
    /\ job.selectedTrackIds = <<"sp2", "sp9">>
    /\ Len(tracks) = 1
    /\ tracks[1].platformId = "sp2"
    /\ conversion.totalTracks = 1
    /\ Len(units) = 1

----------------------------------------------------------------------------
\* C34: Progress is 0 for a total of 0 and otherwise processed * 100
\* divided by the total, by integer division, capped at 100, for all
\* non-negative processed and total; it is 100 when processed = total > 0.
C34_ProgressCapped ==
    LET total == conversion.totalTracks
        processed == conversion.processedTracks
        quotient == (processed * 100) \div total
    IN  (conversion # NoConversion /\ total >= 0 /\ processed >= 0) =>
            /\ total = 0 => Progress(conversion) = 0
            /\ total > 0 =>
                  Progress(conversion) = IF quotient > 100 THEN 100 ELSE quotient
            /\ (total > 0 /\ processed = total) => Progress(conversion) = 100
            /\ Progress(conversion) \in 0..100

\* A worker that died inside Convert after conversionRepo.Create stored the
\* row of its job.
CrashedMidConvert(w) ==
    /\ wk[w].pc = "crashed"
    /\ wk[w].job # 0
    /\ wk[w].persisted

\* C35: if a worker crashes after the Conversion was persisted and before
\* Convert finalized it, the durable record stays in a non-terminal status
\* forever: in every state from the crash on the row is still non-terminal,
\* the job is not in the queue and no worker has a Convert call for it, and
\* a row is written only by the live worker that is inside Convert of that
\* very job, so no other worker resumes or fails the Conversion.
C35_StuckAfterCrash ==
    /\ [](\A w \in Workers :
            CrashedMidConvert(w) =>
                /\ records[wk[w].job] = ConversionStatusPending
                /\ ~Queued(wk[w].job)
                /\ \A a \in active : a.job # wk[w].job
                /\ \A v \in Workers \ {w} : wk[v].job # wk[w].job)
    /\ [][\A j \in 1..MaxJobs :
            records'[j] # records[j] =>
                \E w \in Workers :
                    /\ wk[w].pc = "convert"
                    /\ wk[w].job = j
                    /\ [worker |-> w, job |-> j] \in active]_vars

\* C35 witness: one worker died with its Conversion persisted and not
\* finalized, while the other worker finished another job and is back in
\* its loop with the queue empty.
C35_Witness ==
    \E w \in Workers, v \in Workers :
        /\ v # w
        /\ CrashedMidConvert(w)
        /\ records[wk[w].job] = ConversionStatusPending
        /\ wk[v].pc = "select"
        /\ wk[v].result = "nil"
        /\ pushed = MaxJobs
        /\ queue = <<>>
        /\ \E j \in 1..MaxJobs : records[j] = ConversionStatusCompleted

\* Strings an optional field of a Conversion may hold, the empty one among
\* them.
OptionalStrings ==
    {"", "Mine", "PL1", "https://youtube/PL1", "no tracks matched",
     "internal error: " \o PanicValue}

\* The optional fields of a Conversion.
OptionalFields(c) ==
    <<c.sourcePlaylistName, c.targetPlaylistID, c.targetPlaylistURL,
      c.targetPlaylistName, c.errorMessage>>

\* C36: storing and reloading an optional string is the identity: the empty
\* string is stored as null, null loads as the empty string and a non-empty
\* string loads unchanged; so whenever Create or Update writes the row of
\* the Conversion, scanConversion of the written row gives back the
\* Conversion that was saved, optional fields included, and a column is
\* null exactly when the field is empty.
C36_OptionalRoundTrip ==
    /\ [](\A s \in OptionalStrings :
            /\ derefString(nullableString(s)) = s
            /\ (nullableString(s) = <<>>) <=> (s = ""))
    /\ [](derefString(<<>>) = "")
    /\ [][row' # row =>
            /\ scanConversion(row') = conversion
            /\ OptionalFields(scanConversion(row')) = OptionalFields(conversion)
            /\ (row'.source_playlist_name = <<>>) <=> (conversion.sourcePlaylistName = "")
            /\ (row'.target_playlist_id = <<>>) <=> (conversion.targetPlaylistID = "")
            /\ (row'.target_playlist_url = <<>>) <=> (conversion.targetPlaylistURL = "")
            /\ (row'.target_playlist_name = <<>>) <=> (conversion.targetPlaylistName = "")
            /\ (row'.error_message = <<>>) <=> (conversion.errorMessage = "")]_vars

\* C36 witness: the row of a completed Conversion was written and loads
\* back equal, with the playlist fields set and the error message null.
C36_Witness ==
    /\ pc = "returned"
    /\ row # NoRow
    /\ row.status = ConversionStatusCompleted
    /\ row.error_message = <<>>
    /\ row.target_playlist_id # <<>>
    /\ row.source_playlist_name # <<>>
    /\ scanConversion(row) = conversion

\* C37: Convert returns nil if and only if the Conversion's final status is
\* COMPLETED; an execution that ends with the Conversion FAILED, the one
\* ended by the panic guard included, returns a non-nil error.
C37_NilIffCompleted ==
    ConvertReturned =>
        /\ (ret = ReturnNil) <=> (conversion.status = ConversionStatusCompleted)
        /\ conversion.status = ConversionStatusFailed => ret.kind = "error"

\* C39: if Convert ends with the Conversion FAILED, no target playlist was
\* created for the job: CreatePlaylist has not returned success in that
\* execution.
C39_FailedMeansNoPlaylist ==
    (ConvertReturned /\ conversion.status = ConversionStatusFailed) =>
        created = NoPlaylist

\* MatchTracks is waiting for results with a semaphore of capacity 0.
BlockedOnZeroSlots == concurrency = 0 /\ pc = "Receive"

\* C38: with concurrency 0 and a non-empty track list no unit ever acquires
\* a slot and MatchTracks blocks forever, also after the job context is
\* cancelled or its deadline has passed: every unit stays at the acquire,
\* no Match is sent, results is never closed, and no step leaves the
\* receive loop, so Convert does not return to the worker.
C38_ZeroConcurrencyBlocks ==
    /\ [](BlockedOnZeroSlots =>
            /\ Len(tracks) > 0
            /\ \A i \in DOMAIN units : units[i] = "acquire"
            /\ sem = 0
            /\ results = <<>>
            /\ ~closed
            /\ ~ConvertReturned)
    /\ [][BlockedOnZeroSlots =>
            /\ pc' = "Receive"
            /\ units' = units
            /\ results' = results
            /\ conversion' = conversion
            /\ ret' = ret]_vars

\* C38 witness: MatchTracks has started its units with concurrency 0, the
\* job context is done, and every unit still waits for a slot.
C38_Witness ==
    /\ BlockedOnZeroSlots
    /\ ctxDone
    /\ Len(tracks) = MaxTracks
    /\ \A i \in DOMAIN units : units[i] = "acquire"

=============================================================================
